---- MODULE Spec2Model ----
(***************************************************************************)
(* The rider's orders screen of GOFRider (RiderOrdersScreen, latest        *)
(* revision: src/unnamed/part_002) together with the HTTP gateway it calls *)
(* (ApiManager, src/unnamed/part_005).  Spec drives the screen through its *)
(* buttons, SpecHandlers calls its handlers directly, and SpecHelpers      *)
(* applies its helper functions (and getStatusInfo of the earlier          *)
(* revision, src/unnamed/part_001) to status strings and the gateway to    *)
(* network outcomes.                                                       *)
(*                                                                         *)
(* JavaScript strings that the code converts or compares (order statuses,  *)
(* status labels, the confirmation code) are sequences of one-character    *)
(* strings, so that toLowerCase, replace(/[^0-9]/g,'') and length are       *)
(* computed and not assumed.  A null or undefined string is the value Null. *)
(* A null order id is NullId.                                              *)
(***************************************************************************)
EXTENDS Naturals, Sequences, FiniteSets

\* ------------------------------------------------------------------------
\* Strings
\* ------------------------------------------------------------------------

Null == <<"<null>">>
EmptyStr == <<>>
NullId == 0

Upper == <<"A", "B", "C", "D", "E", "F", "G", "H", "I", "J", "K", "L", "M", "N", "O", "P", "Q", "R", "S", "T", "U", "V", "W", "X", "Y", "Z">>
Lower == <<"a", "b", "c", "d", "e", "f", "g", "h", "i", "j", "k", "l", "m", "n", "o", "p", "q", "r", "s", "t", "u", "v", "w", "x", "y", "z">>
Digits == {"0", "1", "2", "3", "4", "5", "6", "7", "8", "9"}

\* JS truthiness of a string value: null, undefined and '' are falsy.
Truthy(s) == s # Null /\ s # EmptyStr

LowerChar(c) ==
    IF \E i \in DOMAIN Upper : Upper[i] = c
    THEN Lower[CHOOSE i \in DOMAIN Upper : Upper[i] = c]
    ELSE c

\* String.prototype.toLowerCase
toLowerCase(s) == [i \in DOMAIN s |-> LowerChar(s[i])]

\* status?.toLowerCase() || ''
LowerOrEmpty(s) == IF Truthy(s) THEN toLowerCase(s) ELSE EmptyStr

\* The status vocabulary, STATUS_MAP's keys and labels.
s_assigned == <<"a", "s", "s", "i", "g", "n", "e", "d">>
s_pending == <<"p", "e", "n", "d", "i", "n", "g">>
s_picked == <<"p", "i", "c", "k", "e", "d">>
s_picked_up == <<"p", "i", "c", "k", "e", "d", "_", "u", "p">>
s_delivering == <<"d", "e", "l", "i", "v", "e", "r", "i", "n", "g">>
s_out_for_delivery == <<"o", "u", "t", "_", "f", "o", "r", "_", "d", "e", "l", "i", "v", "e", "r", "y">>
s_delivered == <<"d", "e", "l", "i", "v", "e", "r", "e", "d">>
s_cancelled == <<"c", "a", "n", "c", "e", "l", "l", "e", "d">>
l_Assigned == <<"A", "s", "s", "i", "g", "n", "e", "d">>
l_PickedUp == <<"P", "i", "c", "k", "e", "d", " ", "U", "p">>
l_Delivering == <<"D", "e", "l", "i", "v", "e", "r", "i", "n", "g">>
l_Delivered == <<"D", "e", "l", "i", "v", "e", "r", "e", "d">>
l_Unknown == <<"U", "n", "k", "n", "o", "w", "n">>

\* Status strings a server may send besides the lower-case vocabulary.
in_DELIVERED == <<"D", "E", "L", "I", "V", "E", "R", "E", "D">>
in_Cancelled == <<"C", "a", "n", "c", "e", "l", "l", "e", "d">>
in_returned == <<"r", "e", "t", "u", "r", "n", "e", "d">>

\* ------------------------------------------------------------------------
\* Constants and helper functions of the screen
\* ------------------------------------------------------------------------

OTP_LENGTH == 4

STATUS_MAP_KEYS ==
    {s_assigned, s_pending, s_picked, s_picked_up, s_delivering,
     s_out_for_delivery, s_delivered}

\* STATUS_MAP with the forward edge of assigned skipping a state.
STATUS_MAP_skipping(k) ==
    CASE k \in {s_assigned, s_pending} ->
            [label |-> l_Assigned, color |-> "#ff9800",
             action |-> "Mark as Picked", nextStatus |-> s_delivering]
      [] k \in {s_picked, s_picked_up} ->
            [label |-> l_PickedUp, color |-> "#2196f3",
             action |-> "Start Delivery", nextStatus |-> s_delivering]
      [] k \in {s_delivering, s_out_for_delivery} ->
            [label |-> l_Delivering, color |-> "#9c27b0",
             action |-> "Complete Delivery", nextStatus |-> s_delivered]
      [] k = s_delivered ->
            [label |-> l_Delivered, color |-> "#4caf50",
             action |-> "Completed", nextStatus |-> Null]

\* STATUS_MAP with an entry of its own for the alias 'pending'.
STATUS_MAP_pendingApart(k) ==
    CASE k = s_assigned ->
            [label |-> l_Assigned, color |-> "#ff9800",
             action |-> "Mark as Picked", nextStatus |-> s_picked]
      [] k = s_pending ->
            [label |-> <<"P", "e", "n", "d", "i", "n", "g">>, color |-> "#ff9800",
             action |-> "Mark as Picked", nextStatus |-> s_assigned]
      [] k \in {s_picked, s_picked_up} ->
            [label |-> l_PickedUp, color |-> "#2196f3",
             action |-> "Start Delivery", nextStatus |-> s_delivering]
      [] k \in {s_delivering, s_out_for_delivery} ->
            [label |-> l_Delivering, color |-> "#9c27b0",
             action |-> "Complete Delivery", nextStatus |-> s_delivered]
      [] k = s_delivered ->
            [label |-> l_Delivered, color |-> "#4caf50",
             action |-> "Completed", nextStatus |-> Null]

\* STATUS_MAP with the edge of delivering leading back to picked.
STATUS_MAP_backEdge(k) ==
    CASE k \in {s_assigned, s_pending} ->
            [label |-> l_Assigned, color |-> "#ff9800",
             action |-> "Mark as Picked", nextStatus |-> s_picked]
      [] k \in {s_picked, s_picked_up} ->
            [label |-> l_PickedUp, color |-> "#2196f3",
             action |-> "Start Delivery", nextStatus |-> s_delivering]
      [] k \in {s_delivering, s_out_for_delivery} ->
            [label |-> l_Delivering, color |-> "#9c27b0",
             action |-> "Complete Delivery", nextStatus |-> s_picked]
      [] k = s_delivered ->
            [label |-> l_Delivered, color |-> "#4caf50",
             action |-> "Completed", nextStatus |-> Null]

STATUS_MAP(k) ==
    CASE k \in {s_assigned, s_pending} ->
            [label |-> l_Assigned, color |-> "#ff9800",
             action |-> "Mark as Picked", nextStatus |-> s_picked]
      [] k \in {s_picked, s_picked_up} ->
            [label |-> l_PickedUp, color |-> "#2196f3",
             action |-> "Start Delivery", nextStatus |-> s_delivering]
      [] k \in {s_delivering, s_out_for_delivery} ->
            [label |-> l_Delivering, color |-> "#9c27b0",
             action |-> "Complete Delivery", nextStatus |-> s_delivered]
      [] k = s_delivered ->
            [label |-> l_Delivered, color |-> "#4caf50",
             action |-> "Completed", nextStatus |-> Null]

CANCELLABLE_STATUSES == {s_delivering}
NON_CANCELLABLE_STATUSES == {s_delivered, s_cancelled}

\* STATUS_MAP is an object literal: a key that is not its own is looked up on
\* Object.prototype, whose properties (the function Object for 'constructor',
\* Object.prototype itself for '__proto__', ...) are truthy and have none of
\* the fields of a StatusInfo: reading label, color, action or nextStatus of
\* them gives undefined.
k_constructor == <<"c", "o", "n", "s", "t", "r", "u", "c", "t", "o", "r">>
k___proto__ == <<"_", "_", "p", "r", "o", "t", "o", "_", "_">>
k_toString == <<"t", "o", "S", "t", "r", "i", "n", "g">>
k_valueOf == <<"v", "a", "l", "u", "e", "O", "f">>
ObjectPrototypeKeys == {k_constructor, k___proto__, k_toString, k_valueOf}

InheritedProperty ==
    [label |-> Null, color |-> "<undefined>", action |-> "<undefined>",
     nextStatus |-> Null]

\* getStatusInfo of the earlier revision of the screen: a switch statement
\* over the lower-cased status, the fallback colour being colors.textLabel.
getStatusInfo_part_001(status) ==
    LET statusLower == LowerOrEmpty(status)
    IN  CASE statusLower \in {s_assigned, s_pending} ->
                [label |-> l_Assigned, color |-> "#ff9800",
                 action |-> "Mark as Picked", nextStatus |-> s_picked]
          [] statusLower \in {s_picked, s_picked_up} ->
                [label |-> l_PickedUp, color |-> "#2196f3",
                 action |-> "Start Delivery", nextStatus |-> s_delivering]
          [] statusLower \in {s_delivering, s_out_for_delivery} ->
                [label |-> l_Delivering, color |-> "#9c27b0",
                 action |-> "Complete Delivery", nextStatus |-> s_delivered]
          [] statusLower = s_delivered ->
                [label |-> l_Delivered, color |-> "#4caf50",
                 action |-> "Completed", nextStatus |-> Null]
          [] OTHER ->
                [label |-> IF Truthy(status) THEN status ELSE l_Unknown,
                 color |-> "textLabel", action |-> "View", nextStatus |-> Null]

\* getStatusInfo comparing the status as it came, without toLowerCase.
getStatusInfo_caseSensitive(status, fallbackColor) ==
    LET statusKey == IF Truthy(status) THEN status ELSE EmptyStr
    IN  IF statusKey \in STATUS_MAP_KEYS
        THEN STATUS_MAP(statusKey)
        ELSE IF statusKey \in ObjectPrototypeKeys
        THEN InheritedProperty
        ELSE [label |-> IF Truthy(status) THEN status ELSE l_Unknown,
              color |-> fallbackColor,
              action |-> "View",
              nextStatus |-> Null]

\* STATUS_MAP[statusKey] || { label: status || 'Unknown', ... }
getStatusInfo(status, fallbackColor) ==
    LET statusKey == LowerOrEmpty(status)
    IN  IF statusKey \in STATUS_MAP_KEYS
        THEN STATUS_MAP(statusKey)
        ELSE IF statusKey \in ObjectPrototypeKeys
        THEN InheritedProperty
        ELSE [label |-> IF Truthy(status) THEN status ELSE l_Unknown,
              color |-> fallbackColor,
              action |-> "View",
              nextStatus |-> Null]

\* order.order?.status || order.status
getOrderStatus(order) ==
    IF Truthy(order.order_status) THEN order.order_status ELSE order.status

\* canCancelOrder comparing the raw status, without toLowerCase.
canCancelOrder_caseSensitive(orderStatus) ==
    orderStatus \notin NON_CANCELLABLE_STATUSES

\* canCancelOrder refusing a missing status.
canCancelOrder_needsStatus(orderStatus) ==
    Truthy(orderStatus) /\ LowerOrEmpty(orderStatus) \notin NON_CANCELLABLE_STATUSES

canCancelOrder(orderStatus) ==
    LowerOrEmpty(orderStatus) \notin NON_CANCELLABLE_STATUSES

\* shouldShowCancelButton showing the button for every label but the terminal one.
shouldShowCancelButton_always(statusLabel) ==
    statusLabel # l_Delivered

shouldShowCancelButton(statusLabel) ==
    \E status \in CANCELLABLE_STATUSES :
        status \in STATUS_MAP_KEYS /\ STATUS_MAP(status).label = statusLabel

\* colors.textLabel, the fallback colour the screen passes to getStatusInfo
textLabel == "textLabel"

StatusInfoOf(order) == getStatusInfo(getOrderStatus(order), textLabel)

\* ------------------------------------------------------------------------
\* The gateway: ApiManager.request
\* ------------------------------------------------------------------------

\* What the network does to one request: the device is connected or not,
\* fetch rejects or resolves, the body parses as JSON or not, the HTTP status
\* is 2xx (ok) or not, and the parsed body.  A message of "" is an absent one.
NoJson == [success |-> FALSE, message |-> "", error |-> "", hasData |-> FALSE, data |-> <<>>]

Reply(connected, rejects, parses, ok, json) ==
    [isConnected |-> connected, rejects |-> rejects, parses |-> parses,
     ok |-> ok, json |-> json]

Body(success, message, error) ==
    [success |-> success, message |-> message, error |-> error,
     hasData |-> FALSE, data |-> <<>>]

\* What request did: whether it threw and with which message, the body it
\* returned, and whether it called fetch.
Thrown(message) == [threw |-> TRUE, message |-> message, json |-> NoJson, fetched |-> TRUE]
Returned(json) == [threw |-> FALSE, message |-> "", json |-> json, fetched |-> TRUE]
NotConnected ==
    [threw |-> TRUE, message |-> "No internet connection", json |-> NoJson,
     fetched |-> FALSE]

\* request without the NetInfo check: offline, fetch is called and rejects.
request_noNetInfo(reply) ==
    IF ~reply.isConnected \/ reply.rejects THEN Thrown("Network request failed")
    ELSE IF ~reply.parses THEN Thrown("Invalid response from server")
    ELSE IF ~reply.ok
         THEN Thrown(IF reply.json.message # "" THEN reply.json.message
                     ELSE IF reply.json.error # "" THEN reply.json.error
                     ELSE "Request failed")
    ELSE Returned(reply.json)

\* ApiManager.request: throws (Thrown) or returns the parsed body (Returned).
request(reply) ==
    IF ~reply.isConnected THEN NotConnected
    ELSE IF reply.rejects THEN Thrown("")
    ELSE IF ~reply.parses THEN Thrown("Invalid response from server")
    ELSE IF ~reply.ok
         THEN Thrown(IF reply.json.message # "" THEN reply.json.message
                     ELSE IF reply.json.error # "" THEN reply.json.error
                     ELSE "Request failed")
    ELSE Returned(reply.json)

\* The headers request builds: the name of each header it sets and its value,
\* the value in the pieces the template string joins.
headers(token, isFormData) ==
    LET names == {"platform"}
                 \cup (IF ~isFormData THEN {"Accept", "Content-Type"} ELSE {})
                 \cup (IF token # "" THEN {"Authorization"} ELSE {})
    IN  [n \in names |->
            IF n = "platform" THEN <<"Platform.OS">>
            ELSE IF n = "Authorization" THEN <<"Bearer ", token>>
            ELSE <<"application/json">>]

\* The options with the Authorization header set whatever the token is.
requestOptions_alwaysAuthorized(config) ==
    [method |-> config.method,
     headers |-> [n \in DOMAIN headers(config.token, config.isFormData)
                        \cup {"Authorization"} |->
                     IF n = "Authorization" THEN <<"Bearer ", config.token>>
                     ELSE headers(config.token, config.isFormData)[n]],
     hasBody |-> config.method # "GET"]

\* The options request hands to fetch; params defaults to {}, which is truthy.
requestOptions(config) ==
    [method |-> config.method,
     headers |-> headers(config.token, config.isFormData),
     hasBody |-> config.method # "GET"]

\* No call of fetch.
NoOptions == [method |-> "", headers |-> [n \in {} |-> <<>>], hasBody |-> FALSE]

\* ------------------------------------------------------------------------
\* Inputs: what the server may answer
\* ------------------------------------------------------------------------

Order(id, inner, outer) == [id |-> id, order_status |-> inner, status |-> outer]

\* Order lists the orders endpoint may return.
ServerLists ==
    { <<Order(1, s_assigned, s_assigned), Order(2, s_delivering, s_delivering)>>,
      <<Order(1, Null, s_picked), Order(2, in_DELIVERED, s_delivering)>>,
      <<Order(1, in_Cancelled, s_assigned), Order(2, in_returned, Null)>>,
      <<>> }

OrderIds == {1, 2}

\* Replies to updateStatus and verifyOTP.
MutationReplies ==
    { Reply(FALSE, FALSE, FALSE, FALSE, NoJson),
      Reply(TRUE, TRUE, FALSE, FALSE, NoJson),
      Reply(TRUE, FALSE, TRUE, FALSE, Body(FALSE, "Order not found", "")),
      Reply(TRUE, FALSE, TRUE, FALSE, Body(FALSE, "", "")),
      Reply(TRUE, FALSE, TRUE, TRUE, Body(TRUE, "Updated", "")),
      Reply(TRUE, FALSE, TRUE, TRUE, Body(FALSE, "Invalid OTP", "")) }

\* Replies to getOrders: an unparsable body, a body without data, or a list.
FetchReplies ==
    { Reply(TRUE, FALSE, FALSE, TRUE, NoJson),
      Reply(TRUE, FALSE, TRUE, TRUE, Body(TRUE, "", "")) }
    \cup { Reply(TRUE, FALSE, TRUE, TRUE,
                 [success |-> TRUE, message |-> "", error |-> "",
                  hasData |-> TRUE, data |-> l]) : l \in ServerLists }

\* Texts the rider may type into the OTP field (the field's new content).
d_12 == <<"1", "2">>
d_4821 == <<"4", "8", "2", "1">>
d_48215 == <<"4", "8", "2", "1", "5">>
d_4a82b1 == <<"4", "a", "8", "2", "b", "1">>
d_1a2b == <<"1", "a", "2", "b">>
TypedTexts == {EmptyStr, d_12, d_4821, d_48215, d_4a82b1, d_1a2b}

\* Requests that may be pending at once.
MaxInFlight == 2

\* The longest chain of nextStatus lookups that is followed.
MaxChain == 4

\* ------------------------------------------------------------------------
\* State
\* ------------------------------------------------------------------------

VARIABLES
    orders,                 \* useState orders: the displayed list
    loading,                \* useState loading
    refreshing,             \* useState refreshing
    updatingOrderId,        \* useState updatingOrderId (NullId: null)
    showConfirmationModal,  \* useState showConfirmationModal
    confirmationCode,       \* useState confirmationCode
    currentOrder,           \* useState currentOrder (its id; NullId: null)
    dialog,                 \* the open two-button Alert, or NoDialog
    inflight,               \* pending gateway calls, in the order issued
    ev,                     \* the handler that ran last: what it showed and sent
    call,                   \* the helper applied last: its argument and its result
    auth,                   \* AuthContext and the persistent store behind it
    login,                  \* LoginScreen: username, password, loading, alert
    profile,                \* RiderProfileScreen: loading, dialog, alert
    home,                   \* RiderHomeScreen: orders and the two counts
    net,                    \* pending gateway calls of these three screens
    step                    \* the handler of these screens that ran last

vars == <<orders, loading, refreshing, updatingOrderId, showConfirmationModal,
          confirmationCode, currentOrder, dialog, inflight, ev, call,
          auth, login, profile, home, net, step>>

\* The state outside the orders screen.
app == <<auth, login, profile, home, net, step>>

NullOrder == [id |-> NullId, order_status |-> Null, status |-> Null]
NoDialog == [order |-> NullOrder, newStatus |-> Null, seenUpdating |-> NullId]
NoAlert == [title |-> "", message |-> "", arg |-> Null]
NoRequest == [kind |-> "none", order |-> NullOrder, arg |-> Null,
              isRefresh |-> FALSE, chained |-> FALSE, overtaken |-> FALSE]

Alert(title, message) == [title |-> title, message |-> message, arg |-> Null]

\* An alert whose message ends with a status: `Order status updated to ${status}`.
AlertWith(title, message, status) == [title |-> title, message |-> message, arg |-> status]

\* A pending getOrders call made by fetchOrders(isRefresh); chained when the
\* caller is the success path of updateOrderStatus or verifyOTP, which awaits it.
\* overtaken records that a getOrders call issued later was answered already.
FetchRequest(isRefresh, chained) ==
    [kind |-> "getOrders", order |-> NullOrder, arg |-> Null,
     isRefresh |-> isRefresh, chained |-> chained, overtaken |-> FALSE]

UpdateRequest(order, newStatus) ==
    [kind |-> "updateStatus", order |-> order, arg |-> newStatus,
     isRefresh |-> FALSE, chained |-> FALSE, overtaken |-> FALSE]

VerifyRequest(order, otp) ==
    [kind |-> "verifyOTP", order |-> order, arg |-> otp,
     isRefresh |-> FALSE, chained |-> FALSE, overtaken |-> FALSE]

NoReply == [isConnected |-> FALSE, rejects |-> FALSE, parses |-> FALSE,
            ok |-> FALSE, json |-> NoJson]

\* What the last handler did: the handler, the order it ran for, the reply it
\* handled and whether the gateway threw, the alert it showed, the call it made.
Event(op, order, reply, threw, alert, sent) ==
    [op |-> op, order |-> order, reply |-> reply, threw |-> threw,
     alert |-> alert, sent |-> sent]

\* A handler that is no gateway continuation.
Tap(op, order, alert, sent) == Event(op, order, NoReply, FALSE, alert, sent)

\* A helper function applied to `arg` with result `ret`; `from` and `steps`
\* tell where a chain of nextStatus lookups started and how long it is.
Call(fn, from, arg, ret, steps) ==
    [fn |-> fn, from |-> from, arg |-> arg, ret |-> ret, steps |-> steps]

NoCall == Call("none", Null, Null, Null, 0)

RemoveAt(q, i) == [j \in 1..(Len(q) - 1) |-> IF j < i THEN q[j] ELSE q[j + 1]]

\* The call at position i of q is answered and leaves q: the getOrders calls
\* issued before it are overtaken.
AnswerAt(q, i) ==
    [j \in 1..(Len(q) - 1) |->
        IF j < i
        THEN IF q[j].kind = "getOrders" THEN [q[j] EXCEPT !.overtaken = TRUE] ELSE q[j]
        ELSE q[j + 1]]

\* ------------------------------------------------------------------------
\* Session, login, profile and home: state
\* ------------------------------------------------------------------------

\* A rider profile; id 0 stands for undefined.
Profile(id, name) == [id |-> id, name |-> name]
NoProfile == Profile(0, "")

\* AuthContext: isLoading while the stored session is read, isLoggedIn, and
\* the token and profile mirrored in the persistent store ('' : no item).
Auth(isLoading, isLoggedIn, token, user) ==
    [isLoading |-> isLoading, isLoggedIn |-> isLoggedIn, token |-> token, user |-> user]

\* useState username, password and loading of LoginScreen.
LoginState(username, password, isLoading) ==
    [username |-> username, password |-> password, loading |-> isLoading]

\* useState loading of the profile screen, and its Logout dialog being open.
ProfileState(isLoading, confirming) ==
    [loading |-> isLoading, confirming |-> confirming]

\* useState orders, pendingCount, completedCount and refreshing of the home
\* screen.
HomeState(list, pendingCount, completedCount, isRefreshing) ==
    [orders |-> list, pendingCount |-> pendingCount,
     completedCount |-> completedCount, refreshing |-> isRefreshing]

\* What a handler of these screens did: whether it called the gateway, login
\* and logout, whether that call returned, the alert it showed, and the reply
\* it handled.
Did(op, requested, loginCalled, logoutCalled, ok, alert, reply) ==
    [op |-> op, requested |-> requested, loginCalled |-> loginCalled,
     logoutCalled |-> logoutCalled, ok |-> ok, alert |-> alert, reply |-> reply]

\* A pending gateway call of these screens.
Req(kind, email, password, token) ==
    [kind |-> kind, email |-> email, password |-> password, token |-> token]

AppInit ==
    /\ auth = Auth(TRUE, FALSE, "", NoProfile)
    /\ login = LoginState(EmptyStr, EmptyStr, FALSE)
    /\ profile = ProfileState(FALSE, FALSE)
    /\ home = HomeState(<<>>, 0, 0, FALSE)
    /\ net = <<>>
    /\ step = Did("init", FALSE, FALSE, FALSE, FALSE, NoAlert, NoReply)

Init ==
    /\ orders = <<>>
    /\ loading = TRUE
    /\ refreshing = FALSE
    /\ updatingOrderId = NullId
    /\ showConfirmationModal = FALSE
    /\ confirmationCode = EmptyStr
    /\ currentOrder = NullOrder
    /\ dialog = NoDialog
    /\ inflight = <<>>
    /\ ev = Tap("init", NullOrder, NoAlert, NoRequest)
    /\ call = NoCall
    /\ AppInit

\* ------------------------------------------------------------------------
\* fetchOrders
\* ------------------------------------------------------------------------

\* The synchronous start of fetchOrders(isRefresh) on the queue q.
fetchOrdersStart(q, isRefresh, chained) ==
    /\ refreshing' = (IF isRefresh THEN TRUE ELSE refreshing)
    /\ loading' = (IF isRefresh THEN loading ELSE TRUE)
    /\ inflight' = Append(q, FetchRequest(isRefresh, chained))

\* No Alert with buttons and no OTP modal covers the list.
NoOverlay == dialog = NoDialog /\ ~showConfirmationModal

\* useFocusEffect: the screen gains focus.
FocusEffect ==
    /\ NoOverlay
    /\ Len(inflight) < MaxInFlight
    /\ fetchOrdersStart(inflight, FALSE, FALSE)
    /\ ev' = Tap("focus", NullOrder, NoAlert, FetchRequest(FALSE, FALSE))
    /\ UNCHANGED <<orders, updatingOrderId, showConfirmationModal,
                   confirmationCode, currentOrder, dialog>>
    /\ UNCHANGED <<call, app>>

\* onRefresh: pull to refresh.
onRefresh ==
    /\ NoOverlay
    /\ Len(inflight) < MaxInFlight
    /\ fetchOrdersStart(inflight, TRUE, FALSE)
    /\ ev' = Tap("onRefresh", NullOrder, NoAlert, FetchRequest(TRUE, FALSE))
    /\ UNCHANGED <<orders, updatingOrderId, showConfirmationModal,
                   confirmationCode, currentOrder, dialog>>
    /\ UNCHANGED <<call, app>>

\* response?.data || []
ordersData(json) == IF json.hasData THEN json.data ELSE <<>>

\* The getOrders call at position i resolves with `reply`: the rest of
\* fetchOrders, and the finally block of the update that awaited it.
fetchOrdersDone(i, reply) ==
    LET req == inflight[i]
        res == request(reply)
    IN  /\ req.kind = "getOrders"
        /\ orders' = (IF res.threw THEN <<>> ELSE ordersData(res.json))
        /\ loading' = FALSE
        /\ refreshing' = FALSE
        /\ updatingOrderId' = (IF req.chained THEN NullId ELSE updatingOrderId)
        /\ inflight' = AnswerAt(inflight, i)
        /\ ev' = Event("getOrdersDone", NullOrder, reply, res.threw, NoAlert, NoRequest)
        /\ UNCHANGED <<showConfirmationModal, confirmationCode, currentOrder, dialog>>

FetchResponse == \E i \in DOMAIN inflight : \E reply \in FetchReplies : fetchOrdersDone(i, reply)
    /\ UNCHANGED <<call, app>>

\* ------------------------------------------------------------------------
\* Alerts
\* ------------------------------------------------------------------------

ORDER_COMPLETED == "This order is already completed."
ORDER_NOT_CANCELLABLE == "This order cannot be cancelled."
OTP_VALIDATION == "Please enter a 4-digit OTP code"
STATUS_UPDATE_SUCCESS == "Order status updated to "
STATUS_UPDATE_FAILED == "Failed to update order status"
OTP_VERIFICATION_SUCCESS == "Delivery completed successfully!"
OTP_VERIFICATION_FAILED == "Invalid OTP. Please try again."

\* error.message || fallback
MessageOr(message, fallback) == IF message # "" THEN message ELSE fallback

\* ------------------------------------------------------------------------
\* updateOrderStatus
\* ------------------------------------------------------------------------

\* updateOrderStatus(order, newStatus) up to its gateway call, run by a closure
\* that saw updatingOrderId = seenUpdating when it was created.
updateOrderStatus(order, newStatus, seenUpdating, op) ==
    IF seenUpdating = order.id
    THEN /\ ev' = Tap(op, order, NoAlert, NoRequest)
         /\ UNCHANGED <<updatingOrderId, inflight>>
    ELSE /\ updatingOrderId' = order.id
         /\ inflight' = Append(inflight, UpdateRequest(order, newStatus))
         /\ ev' = Tap(op, order, NoAlert, UpdateRequest(order, newStatus))

\* updateOrderStatusDone writing the new status into the displayed list
\* before the list is fetched again.
updateOrderStatusDone_optimistic(i, reply) ==
    LET req == inflight[i]
        res == request(reply)
        rest == RemoveAt(inflight, i)
    IN  /\ req.kind = "updateStatus"
        /\ IF ~res.threw
           THEN /\ fetchOrdersStart(rest, TRUE, TRUE)
                /\ orders' = [j \in DOMAIN orders |->
                                 IF orders[j].id = req.order.id
                                 THEN [orders[j] EXCEPT !.order_status = req.arg,
                                                        !.status = req.arg]
                                 ELSE orders[j]]
                /\ ev' = Event("updateStatusDone", req.order, reply, FALSE,
                               AlertWith("Success", STATUS_UPDATE_SUCCESS, req.arg),
                               FetchRequest(TRUE, TRUE))
                /\ UNCHANGED updatingOrderId
           ELSE /\ inflight' = rest
                /\ updatingOrderId' = NullId
                /\ ev' = Event("updateStatusDone", req.order, reply, TRUE,
                               Alert("Error", MessageOr(res.message, STATUS_UPDATE_FAILED)),
                               NoRequest)
                /\ UNCHANGED <<orders, loading, refreshing>>
        /\ UNCHANGED <<showConfirmationModal, confirmationCode, currentOrder, dialog>>

\* updateOrderStatusDone calling fetchOrders on the error path too.
updateOrderStatusDone_refetch(i, reply) ==
    LET req == inflight[i]
        res == request(reply)
        rest == RemoveAt(inflight, i)
    IN  /\ req.kind = "updateStatus"
        /\ fetchOrdersStart(rest, TRUE, TRUE)
        /\ ev' = Event("updateStatusDone", req.order, reply, res.threw,
                       IF res.threw
                       THEN Alert("Error", MessageOr(res.message, STATUS_UPDATE_FAILED))
                       ELSE AlertWith("Success", STATUS_UPDATE_SUCCESS, req.arg),
                       FetchRequest(TRUE, TRUE))
        /\ UNCHANGED <<orders, updatingOrderId, showConfirmationModal,
                       confirmationCode, currentOrder, dialog>>

\* The updateStatus call at position i resolves with `reply`: the rest of
\* updateOrderStatus up to its next await (fetchOrders) or its end.
updateOrderStatusDone(i, reply) ==
    LET req == inflight[i]
        res == request(reply)
        rest == RemoveAt(inflight, i)
    IN  /\ req.kind = "updateStatus"
        /\ IF ~res.threw
           THEN /\ fetchOrdersStart(rest, TRUE, TRUE)
                /\ ev' = Event("updateStatusDone", req.order, reply, FALSE,
                               AlertWith("Success", STATUS_UPDATE_SUCCESS, req.arg),
                               FetchRequest(TRUE, TRUE))
                /\ UNCHANGED updatingOrderId
           ELSE /\ inflight' = rest
                /\ updatingOrderId' = NullId
                /\ ev' = Event("updateStatusDone", req.order, reply, TRUE,
                               Alert("Error", MessageOr(res.message, STATUS_UPDATE_FAILED)),
                               NoRequest)
                /\ UNCHANGED <<loading, refreshing>>
        /\ UNCHANGED <<orders, showConfirmationModal, confirmationCode,
                       currentOrder, dialog>>

UpdateResponse ==
    \E i \in DOMAIN inflight : \E reply \in MutationReplies : updateOrderStatusDone(i, reply)
    /\ UNCHANGED <<call, app>>

\* ------------------------------------------------------------------------
\* The OTP modal and verifyOTP
\* ------------------------------------------------------------------------

openOTPModal(order) ==
    /\ currentOrder' = order
    /\ confirmationCode' = EmptyStr
    /\ showConfirmationModal' = TRUE

closeOTPModal ==
    /\ showConfirmationModal' = FALSE
    /\ confirmationCode' = EmptyStr
    /\ currentOrder' = NullOrder

\* text.replace(/[^0-9]/g, '')
RECURSIVE digitsOnly(_)
digitsOnly(text) ==
    IF text = <<>> THEN <<>>
    ELSE IF Head(text) \in Digits
         THEN <<Head(text)>> \o digitsOnly(Tail(text))
         ELSE digitsOnly(Tail(text))

\* handleOTPChange storing the text as typed, without removing non-digits.
handleOTPChange_noFilter(text) ==
    /\ confirmationCode' = (IF Len(text) <= OTP_LENGTH THEN text ELSE confirmationCode)
    /\ ev' = Tap("handleOTPChange", currentOrder, NoAlert, NoRequest)
    /\ UNCHANGED <<orders, loading, refreshing, updatingOrderId,
                   showConfirmationModal, currentOrder, dialog, inflight>>

handleOTPChange(text) ==
    LET numericText == digitsOnly(text)
    IN  /\ confirmationCode' =
              (IF Len(numericText) <= OTP_LENGTH THEN numericText ELSE confirmationCode)
        /\ ev' = Tap("handleOTPChange", currentOrder, NoAlert, NoRequest)
        /\ UNCHANGED <<orders, loading, refreshing, updatingOrderId,
                       showConfirmationModal, currentOrder, dialog, inflight>>

\* The close button of the modal, or the back button (onRequestClose).
CloseModal ==
    /\ showConfirmationModal
    /\ closeOTPModal
    /\ ev' = Tap("closeOTPModal", currentOrder, NoAlert, NoRequest)
    /\ UNCHANGED <<orders, loading, refreshing, updatingOrderId, dialog, inflight>>
    /\ UNCHANGED <<call, app>>

isVerifying == currentOrder # NullOrder /\ updatingOrderId = currentOrder.id
isOTPComplete == Len(confirmationCode) = OTP_LENGTH

\* verifyOTP checking only that a code was entered, not its length.
verifyOTP_noLengthCheck ==
    /\ IF currentOrder = NullOrder
       THEN /\ ev' = Tap("verifyOTP", NullOrder, NoAlert, NoRequest)
            /\ UNCHANGED <<updatingOrderId, inflight>>
       ELSE IF ~Truthy(confirmationCode)
       THEN /\ ev' = Tap("verifyOTP", currentOrder,
                         Alert("Validation Error", OTP_VALIDATION), NoRequest)
            /\ UNCHANGED <<updatingOrderId, inflight>>
       ELSE /\ updatingOrderId' = currentOrder.id
            /\ inflight' = Append(inflight, VerifyRequest(currentOrder, confirmationCode))
            /\ ev' = Tap("verifyOTP", currentOrder, NoAlert,
                         VerifyRequest(currentOrder, confirmationCode))
    /\ UNCHANGED <<orders, loading, refreshing, showConfirmationModal,
                   confirmationCode, currentOrder, dialog>>

\* verifyOTP up to its gateway call.
verifyOTP ==
    /\ IF currentOrder = NullOrder
       THEN /\ ev' = Tap("verifyOTP", NullOrder, NoAlert, NoRequest)
            /\ UNCHANGED <<updatingOrderId, inflight>>
       ELSE IF ~Truthy(confirmationCode) \/ Len(confirmationCode) # OTP_LENGTH
       THEN /\ ev' = Tap("verifyOTP", currentOrder,
                         Alert("Validation Error", OTP_VALIDATION), NoRequest)
            /\ UNCHANGED <<updatingOrderId, inflight>>
       ELSE /\ updatingOrderId' = currentOrder.id
            /\ inflight' = Append(inflight, VerifyRequest(currentOrder, confirmationCode))
            /\ ev' = Tap("verifyOTP", currentOrder, NoAlert,
                         VerifyRequest(currentOrder, confirmationCode))
    /\ UNCHANGED <<orders, loading, refreshing, showConfirmationModal,
                   confirmationCode, currentOrder, dialog>>

\* verifyOTPDone sending the request again when it failed.
verifyOTPDone_retry(i, reply) ==
    LET req == inflight[i]
        res == request(reply)
        rest == RemoveAt(inflight, i)
    IN  /\ req.kind = "verifyOTP"
        /\ IF ~res.threw
           THEN /\ closeOTPModal
                /\ fetchOrdersStart(rest, TRUE, TRUE)
                /\ ev' = Event("verifyOTPDone", req.order, reply, FALSE,
                               Alert("Success", OTP_VERIFICATION_SUCCESS),
                               FetchRequest(TRUE, TRUE))
                /\ UNCHANGED updatingOrderId
           ELSE /\ inflight' = Append(rest, req)
                /\ ev' = Event("verifyOTPDone", req.order, reply, TRUE,
                               Alert("Error", MessageOr(res.message, OTP_VERIFICATION_FAILED)),
                               req)
                /\ UNCHANGED <<loading, refreshing, showConfirmationModal,
                               confirmationCode, currentOrder, updatingOrderId>>
        /\ UNCHANGED <<orders, dialog>>

\* verifyOTPDone leaving the modal open and the list as it is after a success.
verifyOTPDone_noRefetch(i, reply) ==
    LET req == inflight[i]
        res == request(reply)
    IN  /\ req.kind = "verifyOTP"
        /\ inflight' = RemoveAt(inflight, i)
        /\ updatingOrderId' = NullId
        /\ ev' = Event("verifyOTPDone", req.order, reply, res.threw,
                       IF res.threw
                       THEN Alert("Error", MessageOr(res.message, OTP_VERIFICATION_FAILED))
                       ELSE Alert("Success", OTP_VERIFICATION_SUCCESS),
                       NoRequest)
        /\ UNCHANGED <<orders, loading, refreshing, showConfirmationModal,
                       confirmationCode, currentOrder, dialog>>

\* verifyOTPDone closing the modal on the error path too.
verifyOTPDone_closeOnError(i, reply) ==
    LET req == inflight[i]
        res == request(reply)
        rest == RemoveAt(inflight, i)
    IN  /\ req.kind = "verifyOTP"
        /\ closeOTPModal
        /\ IF ~res.threw
           THEN /\ fetchOrdersStart(rest, TRUE, TRUE)
                /\ ev' = Event("verifyOTPDone", req.order, reply, FALSE,
                               Alert("Success", OTP_VERIFICATION_SUCCESS),
                               FetchRequest(TRUE, TRUE))
                /\ UNCHANGED updatingOrderId
           ELSE /\ inflight' = rest
                /\ updatingOrderId' = NullId
                /\ ev' = Event("verifyOTPDone", req.order, reply, TRUE,
                               Alert("Error", MessageOr(res.message, OTP_VERIFICATION_FAILED)),
                               NoRequest)
                /\ UNCHANGED <<loading, refreshing>>
        /\ UNCHANGED <<orders, dialog>>

\* The verifyOTP call at position i resolves with `reply`.
verifyOTPDone(i, reply) ==
    LET req == inflight[i]
        res == request(reply)
        rest == RemoveAt(inflight, i)
    IN  /\ req.kind = "verifyOTP"
        /\ IF ~res.threw
           THEN /\ closeOTPModal
                /\ fetchOrdersStart(rest, TRUE, TRUE)
                /\ ev' = Event("verifyOTPDone", req.order, reply, FALSE,
                               Alert("Success", OTP_VERIFICATION_SUCCESS),
                               FetchRequest(TRUE, TRUE))
                /\ UNCHANGED updatingOrderId
           ELSE /\ inflight' = rest
                /\ updatingOrderId' = NullId
                /\ ev' = Event("verifyOTPDone", req.order, reply, TRUE,
                               Alert("Error", MessageOr(res.message, OTP_VERIFICATION_FAILED)),
                               NoRequest)
                /\ UNCHANGED <<loading, refreshing, showConfirmationModal,
                               confirmationCode, currentOrder>>
        /\ UNCHANGED <<orders, dialog>>

VerifyResponse ==
    \E i \in DOMAIN inflight : \E reply \in MutationReplies : verifyOTPDone(i, reply)
    /\ UNCHANGED <<call, app>>

\* ------------------------------------------------------------------------
\* The buttons of an order card
\* ------------------------------------------------------------------------

\* handleOrderAction asking for the code before every forward transition.
handleOrderAction_otpAlways(order) ==
    LET statusInfo == StatusInfoOf(order)
    IN  /\ IF ~Truthy(statusInfo.nextStatus)
           THEN /\ ev' = Tap("handleOrderAction", order,
                             Alert("Info", ORDER_COMPLETED), NoRequest)
                /\ UNCHANGED <<showConfirmationModal, confirmationCode,
                               currentOrder, dialog>>
           ELSE /\ openOTPModal(order)
                /\ ev' = Tap("handleOrderAction", order, NoAlert, NoRequest)
                /\ UNCHANGED dialog
        /\ UNCHANGED <<orders, loading, refreshing, updatingOrderId, inflight>>

\* handleOrderAction without the OTP branch: every next status goes to the dialog.
handleOrderAction_noOTP(order) ==
    LET statusInfo == StatusInfoOf(order)
    IN  /\ IF ~Truthy(statusInfo.nextStatus)
           THEN /\ ev' = Tap("handleOrderAction", order,
                             Alert("Info", ORDER_COMPLETED), NoRequest)
                /\ UNCHANGED dialog
           ELSE /\ dialog' = [order |-> order, newStatus |-> statusInfo.nextStatus,
                              seenUpdating |-> updatingOrderId]
                /\ ev' = Tap("handleOrderAction", order, NoAlert, NoRequest)
        /\ UNCHANGED <<orders, loading, refreshing, updatingOrderId, inflight,
                       showConfirmationModal, confirmationCode, currentOrder>>

handleOrderAction(order) ==
    LET statusInfo == StatusInfoOf(order)
    IN  /\ IF ~Truthy(statusInfo.nextStatus)
           THEN /\ ev' = Tap("handleOrderAction", order,
                             Alert("Info", ORDER_COMPLETED), NoRequest)
                /\ UNCHANGED <<showConfirmationModal, confirmationCode,
                               currentOrder, dialog>>
           ELSE IF statusInfo.nextStatus = s_delivered
           THEN /\ openOTPModal(order)
                /\ ev' = Tap("handleOrderAction", order, NoAlert, NoRequest)
                /\ UNCHANGED dialog
           ELSE /\ dialog' = [order |-> order, newStatus |-> statusInfo.nextStatus,
                              seenUpdating |-> updatingOrderId]
                /\ ev' = Tap("handleOrderAction", order, NoAlert, NoRequest)
                /\ UNCHANGED <<showConfirmationModal, confirmationCode, currentOrder>>
        /\ UNCHANGED <<orders, loading, refreshing, updatingOrderId, inflight>>

\* handleCancelOrder sending the cancellation at once, without the dialog.
handleCancelOrder_noDialog(order) ==
    /\ IF ~canCancelOrder(getOrderStatus(order))
       THEN /\ ev' = Tap("handleCancelOrder", order,
                         Alert("Info", ORDER_NOT_CANCELLABLE), NoRequest)
            /\ UNCHANGED <<updatingOrderId, inflight>>
       ELSE /\ Len(inflight) < MaxInFlight
            /\ updateOrderStatus(order, s_cancelled, updatingOrderId, "handleCancelOrder")
    /\ UNCHANGED <<orders, loading, refreshing, dialog,
                   showConfirmationModal, confirmationCode, currentOrder>>

handleCancelOrder(order) ==
    /\ IF ~canCancelOrder(getOrderStatus(order))
       THEN /\ ev' = Tap("handleCancelOrder", order,
                         Alert("Info", ORDER_NOT_CANCELLABLE), NoRequest)
            /\ UNCHANGED dialog
       ELSE /\ dialog' = [order |-> order, newStatus |-> s_cancelled,
                          seenUpdating |-> updatingOrderId]
            /\ ev' = Tap("handleCancelOrder", order, NoAlert, NoRequest)
    /\ UNCHANGED <<orders, loading, refreshing, updatingOrderId,
                   showConfirmationModal, confirmationCode, currentOrder, inflight>>

\* The second button of the open Alert: 'Confirm' or 'Yes, Cancel'.
DialogConfirm ==
    /\ dialog # NoDialog
    /\ Len(inflight) < MaxInFlight
    /\ updateOrderStatus(dialog.order, dialog.newStatus, dialog.seenUpdating, "confirm")
    /\ dialog' = NoDialog
    /\ UNCHANGED <<orders, loading, refreshing, showConfirmationModal,
                   confirmationCode, currentOrder>>
    /\ UNCHANGED <<call, app>>

\* The first button of the open Alert: 'Cancel' or 'No'.
DialogDismiss ==
    /\ dialog # NoDialog
    /\ dialog' = NoDialog
    /\ ev' = Tap("dismiss", dialog.order, NoAlert, NoRequest)
    /\ UNCHANGED <<orders, loading, refreshing, updatingOrderId,
                   showConfirmationModal, confirmationCode, currentOrder, inflight>>
    /\ UNCHANGED <<call, app>>

\* ------------------------------------------------------------------------
\* What the screen renders, and the rider's taps
\* ------------------------------------------------------------------------

isUpdating(order) == updatingOrderId = order.id

\* renderActionButtons: the action button is rendered, and enabled.
ActionButtonRendered(order) == Truthy(StatusInfoOf(order).nextStatus)
ActionButtonEnabled(order) == ActionButtonRendered(order) /\ ~isUpdating(order)

\* renderActionButtons: the cancel button is rendered, and enabled.
CancelButtonRendered(order) == shouldShowCancelButton(StatusInfoOf(order).label)
CancelButtonEnabled(order) == CancelButtonRendered(order) /\ ~isUpdating(order)

\* renderOTPModal: the Verify button is enabled.
VerifyButtonEnabled == showConfirmationModal /\ ~isVerifying /\ isOTPComplete

Displayed == {orders[i] : i \in DOMAIN orders}

TapAction ==
    \E order \in Displayed :
        NoOverlay /\ ActionButtonEnabled(order) /\ handleOrderAction(order)
    /\ UNCHANGED <<call, app>>

TapCancel ==
    \E order \in Displayed :
        NoOverlay /\ CancelButtonEnabled(order) /\ handleCancelOrder(order)
    /\ UNCHANGED <<call, app>>

\* The OTP field takes at most maxLength = OTP_LENGTH characters, and is
\* editable while no verification is pending.
TypeOTP ==
    \E text \in TypedTexts :
        /\ showConfirmationModal /\ ~isVerifying
        /\ Len(text) <= OTP_LENGTH
        /\ handleOTPChange(text)
    /\ UNCHANGED <<call, app>>

TapVerify ==
    /\ VerifyButtonEnabled
    /\ Len(inflight) < MaxInFlight
    /\ verifyOTP
    /\ UNCHANGED <<call, app>>

Next ==
    \/ FocusEffect
    \/ onRefresh
    \/ FetchResponse
    \/ TapAction
    \/ TapCancel
    \/ DialogConfirm
    \/ DialogDismiss
    \/ UpdateResponse
    \/ TypeOTP
    \/ CloseModal
    \/ TapVerify
    \/ VerifyResponse

Spec == Init /\ [][Next]_vars

\* ------------------------------------------------------------------------
\* The handlers driven directly: each handler is applied to every displayed
\* order, and verifyOTP and handleOTPChange to every state of the open modal,
\* whether or not the button or field that calls it is rendered and enabled.
\* ------------------------------------------------------------------------

CallOrderAction ==
    \E order \in Displayed : NoOverlay /\ handleOrderAction(order)
    /\ UNCHANGED <<call, app>>

CallCancelOrder ==
    \E order \in Displayed : NoOverlay /\ handleCancelOrder(order)
    /\ UNCHANGED <<call, app>>

CallOTPChange ==
    \E text \in TypedTexts : showConfirmationModal /\ handleOTPChange(text)
    /\ UNCHANGED <<call, app>>

CallVerify ==
    /\ showConfirmationModal
    /\ Len(inflight) < MaxInFlight
    /\ verifyOTP
    /\ UNCHANGED <<call, app>>

NextHandlers ==
    \/ FocusEffect
    \/ onRefresh
    \/ FetchResponse
    \/ CallOrderAction
    \/ CallCancelOrder
    \/ DialogConfirm
    \/ DialogDismiss
    \/ UpdateResponse
    \/ CallOTPChange
    \/ CloseModal
    \/ CallVerify
    \/ VerifyResponse

SpecHandlers == Init /\ [][NextHandlers]_vars

\* ------------------------------------------------------------------------
\* The helper functions applied to status strings: the input is drawn from
\* the vocabulary in several casings and from strings outside it, and each
\* helper is applied to it.
\* ------------------------------------------------------------------------

UpperChar(c) ==
    IF \E i \in DOMAIN Lower : Lower[i] = c
    THEN Upper[CHOOSE i \in DOMAIN Lower : Lower[i] = c]
    ELSE c

toUpperCase(s) == [i \in DOMAIN s |-> UpperChar(s[i])]

\* s with the character at position i in upper case.
UpperAt(s, i) == [j \in DOMAIN s |-> IF j = i THEN UpperChar(s[j]) ELSE s[j]]

\* s in upper case but for the character at position i.
LowerAt(s, i) == [j \in DOMAIN s |-> IF j = i THEN s[j] ELSE UpperChar(s[j])]

\* Casings of the lower-case word w.
Casings(w) ==
    {w, toUpperCase(w)} \cup {UpperAt(w, i) : i \in DOMAIN w}
                        \cup {LowerAt(w, i) : i \in DOMAIN w}

u_deliver == <<"d", "e", "l", "i", "v", "e", "r">>
u_canceled == <<"c", "a", "n", "c", "e", "l", "e", "d">>
u_delivered_space == <<"d", "e", "l", "i", "v", "e", "r", "e", "d", " ">>

\* The vocabulary of the server's status strings.
Vocabulary == STATUS_MAP_KEYS \cup {s_cancelled}

\* Strings outside the vocabulary, the empty string and undefined.
Unrecognized ==
    {in_returned, u_deliver, u_canceled, u_delivered_space, EmptyStr, Null}
    \cup ObjectPrototypeKeys \cup {toUpperCase(k_constructor)}

StatusInputs == UNION {Casings(w) : w \in Vocabulary} \cup Unrecognized

screen == <<orders, loading, refreshing, updatingOrderId, showConfirmationModal,
            confirmationCode, currentOrder, dialog, inflight, ev>>

StatusInput(s) == Call("status", s, s, Null, 0)

\* The endpoints the screens call and the methods of ApiConfig.
Endpoints == {"getOrders", "updateStatus", "verifyOTP", "riderLogin"}
Methods == {"GET", "POST", "PUT", "DELETE"}

\* What the network would do to a request, the device being offline or not.
GatewayReplies ==
    MutationReplies \cup FetchReplies
    \cup { Reply(FALSE, FALSE, TRUE, TRUE, Body(TRUE, "Updated", "")),
           Reply(FALSE, TRUE, FALSE, FALSE, NoJson),
           Reply(FALSE, FALSE, TRUE, FALSE, Body(FALSE, "Order not found", "")) }

\* The tokens a caller passes: none (the default ''), a stored one, a blank.
Tokens == {"", "17|rider", " "}

GatewayInput(endpoint, method, token, isFormData, reply) ==
    [fn |-> "config", from |-> Null,
     arg |-> [endpoint |-> endpoint, method |-> method, token |-> token,
              isFormData |-> isFormData, reply |-> reply],
     ret |-> Null, steps |-> 0, options |-> NoOptions]

InitHelpers ==
    /\ orders = <<>>
    /\ loading = TRUE
    /\ refreshing = FALSE
    /\ updatingOrderId = NullId
    /\ showConfirmationModal = FALSE
    /\ confirmationCode = EmptyStr
    /\ currentOrder = NullOrder
    /\ dialog = NoDialog
    /\ inflight = <<>>
    /\ ev = Tap("init", NullOrder, NoAlert, NoRequest)
    /\ AppInit
    /\ \/ call \in {StatusInput(s) : s \in StatusInputs}
       \/ call \in {GatewayInput(e, m, t, f, r) :
                        e \in Endpoints, m \in Methods, t \in Tokens,
                        f \in BOOLEAN, r \in GatewayReplies}

\* canCancelOrder(orderStatus)
ApplyCanCancelOrder ==
    /\ call.fn = "status"
    /\ call' = Call("canCancelOrder", call.arg, call.arg, canCancelOrder(call.arg), 0)
    /\ UNCHANGED <<screen, app>>

\* getStatusInfo(orderStatus, colors.textLabel)
ApplyGetStatusInfo ==
    /\ call.fn = "status"
    /\ call' = Call("getStatusInfo", call.arg, call.arg,
                    getStatusInfo(call.arg, textLabel), 0)
    /\ UNCHANGED <<screen, app>>

\* getStatusInfo(order.status) of the earlier revision
ApplyGetStatusInfo_part_001 ==
    /\ call.fn = "status"
    /\ call' = Call("getStatusInfo_part_001", call.arg, call.arg,
                    getStatusInfo_part_001(call.arg), 0)
    /\ UNCHANGED <<screen, app>>

\* The forward edge followed: getStatusInfo applied to the nextStatus that
\* the last getStatusInfo returned, which is the status the screen asks the
\* server to set (handleOrderAction) and is shown once the list is fetched.
ApplyNextStatus ==
    /\ call.fn = "getStatusInfo"
    /\ Truthy(call.ret.nextStatus)
    /\ call.steps < MaxChain
    /\ call' = Call("getStatusInfo", call.from, call.ret.nextStatus,
                    getStatusInfo(call.ret.nextStatus, textLabel), call.steps + 1)
    /\ UNCHANGED <<screen, app>>

\* ApiManager.request({endpoint, method, ...})
ApplyRequest ==
    /\ call.fn = "config"
    /\ call' = [fn |-> "request", from |-> Null, arg |-> call.arg,
                 ret |-> request(call.arg.reply), steps |-> 0,
                 options |-> IF request(call.arg.reply).fetched
                             THEN requestOptions(call.arg) ELSE NoOptions]
    /\ UNCHANGED <<screen, app>>

NextHelpers ==
    \/ ApplyRequest
    \/ ApplyCanCancelOrder
    \/ ApplyGetStatusInfo
    \/ ApplyGetStatusInfo_part_001
    \/ ApplyNextStatus

SpecHelpers == InitHelpers /\ [][NextHelpers]_vars

\* ------------------------------------------------------------------------
\* Properties
\* ------------------------------------------------------------------------

IsMutation(req) == req.kind \in {"updateStatus", "verifyOTP"}

MutationsFor(id) ==
    {i \in DOMAIN inflight : IsMutation(inflight[i]) /\ inflight[i].order.id = id}

StatusKeyOf(order) == LowerOrEmpty(getOrderStatus(order))

IsTerminal(order) == StatusKeyOf(order) \in {s_delivered, s_cancelled}

IsCode(c) == Len(c) = OTP_LENGTH /\ \A i \in DOMAIN c : c[i] \in Digits

\* C1: for every order, at most one updateStatus or verifyOTP request for that
\* order is pending at any moment.
C1_OneMutationPerOrder ==
    \A id \in OrderIds : Cardinality(MutationsFor(id)) <= 1

\* C2: no pending updateStatus request carries the target 'delivered': its
\* target is 'picked', 'delivering' or 'cancelled'; a verifyOTP request carries
\* a code of OTP_LENGTH digits for an order that was displayed as delivering.
C2_NoDeliveredUpdate ==
    \A i \in DOMAIN inflight :
        /\ inflight[i].kind = "updateStatus" =>
               /\ inflight[i].arg # s_delivered
               /\ inflight[i].arg \in {s_picked, s_delivering, s_cancelled}
        /\ inflight[i].kind = "verifyOTP" =>
               /\ IsCode(inflight[i].arg)
               /\ StatusInfoOf(inflight[i].order).nextStatus = s_delivered

\* C2 witness: both kinds of request are pending, the verification for an
\* order displayed as delivering.
C2_Witness ==
    /\ \E i \in DOMAIN inflight : inflight[i].kind = "updateStatus"
    /\ \E i \in DOMAIN inflight :
           /\ inflight[i].kind = "verifyOTP"
           /\ StatusKeyOf(inflight[i].order) = s_delivering

\* C3: handleOrderAction and handleCancelOrder, run for an order whose status
\* is 'delivered' or 'cancelled' in any casing, make no gateway call and open
\* neither the dialog nor the OTP modal; they show the 'already completed' and
\* the 'cannot be cancelled' alert.
C3_TerminalIsInert ==
    (ev.op \in {"handleOrderAction", "handleCancelOrder"} /\ IsTerminal(ev.order)) =>
        /\ ev.sent = NoRequest
        /\ dialog = NoDialog
        /\ ~showConfirmationModal
        /\ ev.op = "handleOrderAction" => ev.alert = Alert("Info", ORDER_COMPLETED)
        /\ ev.op = "handleCancelOrder" => ev.alert = Alert("Info", ORDER_NOT_CANCELLABLE)

\* C3 witness: handleCancelOrder has run for an order whose status is
\* 'Cancelled', which is not the lower-case spelling.
C3_Witness ==
    /\ ev.op = "handleCancelOrder"
    /\ getOrderStatus(ev.order) = in_Cancelled
    /\ ev.alert = Alert("Info", ORDER_NOT_CANCELLABLE)

\* The forward chain as the claim states it.
C4_Successor(key) ==
    CASE key \in {s_assigned, s_pending} -> s_picked
      [] key \in {s_picked, s_picked_up} -> s_delivering
      [] OTHER -> Null

\* C4: every pending updateStatus request, and every open dialog, targets
\* 'cancelled' or the immediate successor of the status the order had when the
\* rider triggered the action; handleOrderAction run for an order whose status
\* has no next status opens nothing and sends nothing.
C4_NoSkippedState ==
    /\ \A i \in DOMAIN inflight :
           inflight[i].kind = "updateStatus" =>
               \/ inflight[i].arg = s_cancelled
               \/ inflight[i].arg = C4_Successor(StatusKeyOf(inflight[i].order))
    /\ dialog # NoDialog =>
           \/ dialog.newStatus = s_cancelled
           \/ dialog.newStatus = C4_Successor(StatusKeyOf(dialog.order))
    /\ (ev.op = "handleOrderAction"
          /\ StatusKeyOf(ev.order) \notin
                 {s_assigned, s_pending, s_picked, s_picked_up,
                  s_delivering, s_out_for_delivery}) =>
           ev.sent = NoRequest /\ dialog = NoDialog /\ ~showConfirmationModal

\* C4 witness: a request for 'delivering' is pending for an order whose status
\* was 'picked'.
C4_Witness ==
    \E i \in DOMAIN inflight :
        /\ inflight[i].kind = "updateStatus"
        /\ inflight[i].arg = s_delivering
        /\ StatusKeyOf(inflight[i].order) = s_picked

DoneOps == {"updateStatusDone", "verifyOTPDone"}

\* The reply reached the server and its body parsed.
Answered(reply) == reply.isConnected /\ ~reply.rejects /\ reply.parses

\* The message the server gave with a non-2xx reply.
ServerMessage(json) ==
    IF json.message # "" THEN json.message
    ELSE IF json.error # "" THEN json.error
    ELSE "Request failed"

\* C5 as stated: after a non-2xx reply to updateStatus or verifyOTP the client
\* shows the server's message, does not retry, and calls fetchOrders.
C5_RefreshOnFailure ==
    (ev.op \in DoneOps /\ Answered(ev.reply) /\ ~ev.reply.ok) =>
        /\ ev.alert = Alert("Error", ServerMessage(ev.reply.json))
        /\ ev.sent = FetchRequest(TRUE, TRUE)

C5_FailureAlert ==
    (ev.op \in DoneOps /\ ~(Answered(ev.reply) /\ ev.reply.ok)) =>
        /\ ev.threw
        /\ ev.alert.title = "Error"
        /\ ev.alert.message # ""
        /\ (Answered(ev.reply) /\ ~ev.reply.ok) =>
               ev.alert.message = ServerMessage(ev.reply.json)
        /\ ev.sent = NoRequest

\* C5 as amended: when the gateway call of updateOrderStatus or verifyOTP
\* throws (no connection, network error, unparsable body, non-2xx status) the
\* client shows an Error alert, with the server's message after a non-2xx reply,
\* and makes no gateway call at all: neither a retry nor fetchOrders.
C5_FailureSurfacedNoRefresh ==
    /\ []C5_FailureAlert
    /\ [][ (ev'.op \in DoneOps /\ ~(Answered(ev'.reply) /\ ev'.reply.ok)) =>
               /\ Len(inflight') = Len(inflight) - 1
               /\ \A i \in DOMAIN inflight' : inflight'[i] \in {inflight[j] : j \in DOMAIN inflight}
         ]_vars

\* C5 witness: an updateStatus call was answered non-2xx with a message.
C5_Witness ==
    /\ ev.op = "updateStatusDone"
    /\ Answered(ev.reply) /\ ~ev.reply.ok
    /\ ev.reply.json.message = "Order not found"
    /\ ev.alert = Alert("Error", "Order not found")

\* C6: a reply with a non-2xx status, and a 2xx reply whose body says
\* success = false, both take the caller down its error path.
C6_ExplicitFailureIsFailure ==
    (ev.op \in DoneOps /\ Answered(ev.reply)
       /\ (~ev.reply.ok \/ ~ev.reply.json.success)) =>
        ev.threw /\ ev.alert.title = "Error"

MutationCount == Cardinality({i \in DOMAIN inflight : IsMutation(inflight[i])})

\* C7: a failed updateStatus or verifyOTP leaves the displayed list as it is,
\* shows an Error alert and only removes the failed call from the pending
\* ones; a mutation request is added only by the rider's confirmation or
\* Verify press, one per press.
C7_FailedMutationIsInert ==
    [][ /\ (ev'.op \in DoneOps /\ ev'.threw) =>
              /\ orders' = orders
              /\ ev'.alert.title = "Error"
              /\ \E i \in DOMAIN inflight : inflight' = RemoveAt(inflight, i)
        /\ MutationCount' > MutationCount =>
              /\ ev'.op \in {"confirm", "verifyOTP"}
              /\ MutationCount' = MutationCount + 1
        /\ ev'.op \in {"confirm", "verifyOTP"} =>
              /\ MutationCount' <= MutationCount + 1
              /\ Len(inflight') <= Len(inflight) + 1
      ]_vars

\* C7 witness: a verification failed, the list is still displayed and the
\* modal is still open.
C7_Witness ==
    /\ ev.op = "verifyOTPDone"
    /\ ev.threw
    /\ orders # <<>>
    /\ showConfirmationModal

OrderShown(id) == {o \in Displayed : o.id = id}

C9_DeliveredHasNoButton ==
    \A o \in Displayed :
        StatusKeyOf(o) = s_delivered =>
            ~ActionButtonRendered(o) /\ ~CancelButtonRendered(o)

ForwardKeys ==
    {s_assigned, s_pending, s_picked, s_picked_up, s_delivering, s_out_for_delivery}

DeliveringKeys == {s_delivering, s_out_for_delivery}

C10_CancelOnlyWhileDelivering ==
    /\ \A o \in Displayed : CancelButtonRendered(o) <=> StatusKeyOf(o) \in DeliveringKeys
    /\ (dialog # NoDialog /\ dialog.newStatus = s_cancelled) =>
           StatusKeyOf(dialog.order) \in DeliveringKeys /\ ~showConfirmationModal
    /\ \A i \in DOMAIN inflight :
           (inflight[i].kind = "updateStatus" /\ inflight[i].arg = s_cancelled) =>
               StatusKeyOf(inflight[i].order) \in DeliveringKeys
    /\ ev.op = "handleCancelOrder" =>
           /\ dialog.order = ev.order /\ dialog.newStatus = s_cancelled
           /\ ~showConfirmationModal
           /\ ev.sent = NoRequest

TerminalInputs == Casings(s_delivered) \cup Casings(s_cancelled)

\* C11: canCancelOrder is false exactly for the casings of 'delivered' and
\* 'cancelled', and true for every other status string, recognized or not,
\* empty or undefined.
C11_CanCancelIffNotTerminal ==
    call.fn = "canCancelOrder" =>
        /\ call.ret \in BOOLEAN
        /\ call.ret = FALSE <=> call.arg \in TerminalInputs

\* C11 witness: canCancelOrder was applied to undefined and returned true.
C11_Witness ==
    call.fn = "canCancelOrder" /\ call.arg = Null /\ call.ret = TRUE

IsGetStatusInfo == call.fn \in {"getStatusInfo", "getStatusInfo_part_001"}

\* The inputs that are a casing of a status with a forward edge.
ForwardInputs == UNION {Casings(w) : w \in STATUS_MAP_KEYS \ {s_delivered}}

LowerForm(s) == CHOOSE w \in Vocabulary : s \in Casings(w)

\* C13: for every casing of a word of the vocabulary (assigned, pending,
\* picked, picked_up, delivering, out_for_delivery, delivered, cancelled)
\* getStatusInfo returns the StatusInfo it returns for the lower-case word.
C13_SameInfoForEveryCasing ==
    (IsGetStatusInfo /\ call.steps = 0
        /\ \E w \in Vocabulary : call.arg \in Casings(w)) =>
        call.ret = (IF call.fn = "getStatusInfo"
                    THEN getStatusInfo(LowerForm(call.arg), textLabel)
                    ELSE getStatusInfo_part_001(LowerForm(call.arg)))

\* C14: the forward chain is linear.  From 'assigned' the chain of
\* nextStatus lookups is picked, delivering, delivered and stops there, after
\* exactly 3 steps; from every status a step leads to one status of the
\* chain, and a chain that was followed stops at 'delivered' only.
C14_LinearChain ==
    call.fn = "getStatusInfo" =>
        /\ call.steps <= 3
        /\ call.steps >= 1 =>
              /\ call.arg \in {s_picked, s_delivering, s_delivered}
              /\ call.ret.nextStatus = Null <=> call.arg = s_delivered
        /\ call.from = s_assigned =>
              /\ call.steps = 0 => call.ret.nextStatus = s_picked
              /\ call.steps = 1 => call.arg = s_picked /\ call.ret.nextStatus = s_delivering
              /\ call.steps = 2 => call.arg = s_delivering /\ call.ret.nextStatus = s_delivered
              /\ call.steps = 3 => call.arg = s_delivered /\ call.ret.nextStatus = Null

\* C14 witness: the chain from 'assigned' reached 'delivered' in 3 steps.
C14_Witness ==
    /\ call.fn = "getStatusInfo"
    /\ call.from = s_assigned
    /\ call.steps = 3
    /\ call.arg = s_delivered
    /\ call.ret.nextStatus = Null

\* C19: for every input that is no casing of a word of the vocabulary, the
\* empty string and undefined included, getStatusInfo returns the label equal
\* to the input ('Unknown' for the empty string and undefined), the action
\* 'View' and the nextStatus null.
C19_UnknownFallback ==
    (IsGetStatusInfo /\ call.steps = 0 /\ call.arg \in Unrecognized) =>
        /\ call.ret.label = (IF Truthy(call.arg) THEN call.arg ELSE l_Unknown)
        /\ call.ret.action = "View"
        /\ call.ret.nextStatus = Null

\* C19 for the strings that lower-case to no property of Object.prototype:
\* there the fallback is returned.
C19_FallbackOutsidePrototype ==
    (IsGetStatusInfo /\ call.steps = 0 /\ call.arg \in Unrecognized
        /\ (call.fn = "getStatusInfo" => LowerOrEmpty(call.arg) \notin ObjectPrototypeKeys)) =>
        /\ call.ret.label = (IF Truthy(call.arg) THEN call.arg ELSE l_Unknown)
        /\ call.ret.action = "View"
        /\ call.ret.nextStatus = Null

AssignedInfo ==
    [label |-> l_Assigned, color |-> "#ff9800",
     action |-> "Mark as Picked", nextStatus |-> s_picked]

PickedUpInfo ==
    [label |-> l_PickedUp, color |-> "#2196f3",
     action |-> "Start Delivery", nextStatus |-> s_delivering]

DeliveringInfo ==
    [label |-> l_Delivering, color |-> "#9c27b0",
     action |-> "Complete Delivery", nextStatus |-> s_delivered]

\* C20: an alias has the StatusInfo of its canonical status: 'pending' and
\* 'assigned' both give label 'Assigned' and nextStatus 'picked', 'picked_up'
\* and 'picked' both give nextStatus 'delivering', 'out_for_delivery' and
\* 'delivering' both give nextStatus 'delivered', in every casing.
C20_AliasAsCanonical ==
    (IsGetStatusInfo /\ call.steps = 0) =>
        /\ call.arg \in Casings(s_pending) \cup Casings(s_assigned) =>
               call.ret = AssignedInfo
        /\ call.arg \in Casings(s_picked_up) \cup Casings(s_picked) =>
               call.ret = PickedUpInfo
        /\ call.arg \in Casings(s_out_for_delivery) \cup Casings(s_delivering) =>
               call.ret = DeliveringInfo

\* C20 witness: getStatusInfo applied to 'PENDING' gave label 'Assigned' and
\* nextStatus 'picked'.
C20_Witness ==
    /\ call.fn = "getStatusInfo"
    /\ call.arg = toUpperCase(s_pending)
    /\ call.ret.label = l_Assigned
    /\ call.ret.nextStatus = s_picked

\* C18: when the device reports no connectivity, request throws 'No internet
\* connection' and has not called fetch, whatever the endpoint, the method
\* and the answer the server would have given.
C18_OfflineThrowsBeforeFetch ==
    (call.fn = "request" /\ ~call.arg.reply.isConnected) =>
        /\ call.ret.threw
        /\ call.ret.message = "No internet connection"
        /\ ~call.ret.fetched

\* C18 witness: an offline POST to updateStatus, which the server would have
\* answered with success, threw without fetch.
C18_Witness ==
    /\ call.fn = "request"
    /\ call.arg.endpoint = "updateStatus" /\ call.arg.method = "POST"
    /\ ~call.arg.reply.isConnected /\ call.arg.reply.ok
    /\ call.ret.threw /\ ~call.ret.fetched

\* ------------------------------------------------------------------------
\* Properties of the handlers (continued)
\* ------------------------------------------------------------------------

\* C15: the OTP step is required exactly for the target 'delivered'.
\* handleOrderAction opens the OTP modal, for the order it was called with,
\* if and only if the order's next status is 'delivered' (its status is
\* delivering or out_for_delivery); handleCancelOrder never opens it; the modal
\* is opened by no other step; and a dialog, whose target is picked,
\* delivering or cancelled, is never open together with the modal.
C15_OTPExactlyForDelivered ==
    /\ [](dialog # NoDialog =>
              /\ dialog.newStatus \in {s_picked, s_delivering, s_cancelled}
              /\ ~showConfirmationModal)
    /\ [][ /\ ev'.op = "handleOrderAction" =>
                 /\ showConfirmationModal' <=> StatusKeyOf(ev'.order) \in DeliveringKeys
                 /\ showConfirmationModal' => currentOrder' = ev'.order
           /\ ev'.op = "handleCancelOrder" => ~showConfirmationModal'
           /\ (~showConfirmationModal /\ showConfirmationModal') =>
                 ev'.op = "handleOrderAction"
         ]_vars

\* C15 witness: handleOrderAction opened the OTP modal for an order displayed
\* as delivering.
C15_Witness ==
    /\ ev.op = "handleOrderAction"
    /\ showConfirmationModal
    /\ currentOrder = ev.order
    /\ StatusKeyOf(ev.order) = s_delivering
    /\ dialog = NoDialog

UpdateCount ==
    Cardinality({i \in DOMAIN inflight : inflight[i].kind = "updateStatus"})

\* C16: an updateStatus request reaches the gateway only by the confirmation
\* of the dialog.  handleOrderAction, handleCancelOrder and the dismissal of
\* the dialog leave the pending calls as they are; a step that adds an
\* updateStatus request is the confirmation of the open dialog and adds the
\* request for the order and the target of that dialog, which one of the two
\* handlers opened for that order.
C16_UpdateOnlyAfterConfirmation ==
    [][ /\ ev'.op \in {"handleOrderAction", "handleCancelOrder", "dismiss"} =>
              /\ inflight' = inflight
              /\ ev'.sent = NoRequest
        /\ ev'.op \in {"handleOrderAction", "handleCancelOrder"} =>
              (dialog' # NoDialog => dialog'.order = ev'.order)
        /\ ev'.op = "dismiss" => dialog' = NoDialog
        /\ UpdateCount' > UpdateCount =>
              /\ ev'.op = "confirm"
              /\ dialog # NoDialog
              /\ inflight' = Append(inflight, UpdateRequest(dialog.order, dialog.newStatus))
      ]_vars

\* C16 witness: the rider confirmed the dialog of 'Mark as Picked' and the
\* updateStatus request for 'picked' is the last pending call.
C16_Witness ==
    /\ ev.op = "confirm"
    /\ ev.sent = UpdateRequest(ev.order, s_picked)
    /\ inflight # <<>>
    /\ inflight[Len(inflight)] = ev.sent
    /\ dialog = NoDialog

\* C17: the displayed list is written by fetchOrders only.  A step that
\* changes the list applies the answer of a getOrders call (the list it
\* carries, or the empty list when the call threw); the steps of
\* updateOrderStatus and verifyOTP leave the list as it is, and when their
\* gateway call returned they replace it among the pending calls by the
\* getOrders call of fetchOrders(true).
C17_ListWrittenByFetchOnly ==
    [][ /\ orders' # orders => ev'.op = "getOrdersDone"
        /\ ev'.op = "getOrdersDone" =>
              orders' = (IF ev'.threw THEN <<>> ELSE ordersData(ev'.reply.json))
        /\ ev'.op \in DoneOps \cup {"confirm", "verifyOTP"} => orders' = orders
        /\ (ev'.op \in DoneOps /\ ~ev'.threw) =>
              /\ ev'.sent = FetchRequest(TRUE, TRUE)
              /\ \E i \in DOMAIN inflight :
                     /\ IsMutation(inflight[i])
                     /\ inflight' = Append(RemoveAt(inflight, i), FetchRequest(TRUE, TRUE))
      ]_vars

\* C17 witness: an updateStatus call returned; the list still displays the
\* order with the status it had and the getOrders call is pending.
C17_Witness ==
    /\ ev.op = "updateStatusDone"
    /\ ~ev.threw
    /\ ev.order \in Displayed
    /\ StatusKeyOf(ev.order) # ev.alert.arg
    /\ inflight # <<>>
    /\ inflight[Len(inflight)] = FetchRequest(TRUE, TRUE)

IsDigits(c) == \A i \in DOMAIN c : c[i] \in Digits

\* C22: the confirmation code is a string of at most 4 decimal digits in every
\* state, empty while the modal is closed, and every pending verifyOTP
\* request carries a code of exactly 4 digits; handleOTPChange stores the
\* digits of the text, or leaves the code as it is when they are more than 4.
C22_CodeIsFourDigits ==
    /\ [](/\ IsDigits(confirmationCode)
          /\ Len(confirmationCode) <= OTP_LENGTH
          /\ ~showConfirmationModal => confirmationCode = EmptyStr
          /\ \A i \in DOMAIN inflight :
                 inflight[i].kind = "verifyOTP" => IsCode(inflight[i].arg))
    /\ [][ /\ ev'.op = "handleOTPChange" =>
                 \/ confirmationCode' = confirmationCode
                 \/ IsDigits(confirmationCode') /\ Len(confirmationCode') <= OTP_LENGTH
           /\ (ev'.op = "verifyOTP" /\ ev'.sent # NoRequest) =>
                 /\ IsCode(confirmationCode)
                 /\ ev'.sent.arg = confirmationCode
         ]_vars

\* C22 witness: a text was typed whose digits are '12' ('12' or '1a2b'); the
\* code is '12' and no request was sent for it.
C22_Witness ==
    /\ ev.op = "handleOTPChange"
    /\ showConfirmationModal
    /\ confirmationCode = d_12
    /\ ev.sent = NoRequest

\* C25: the OTP modal is shown exactly when currentOrder is set.  A
\* verification whose gateway call threw leaves the modal, currentOrder and
\* the entered code as they are; a verification whose call returned closes
\* the modal and clears currentOrder and the code in the step that starts the
\* refetch.
C25_ModalConsistent ==
    /\ [](showConfirmationModal <=> currentOrder # NullOrder)
    /\ [][ /\ (ev'.op = "verifyOTPDone" /\ ev'.threw) =>
                 /\ showConfirmationModal' = showConfirmationModal
                 /\ currentOrder' = currentOrder
                 /\ confirmationCode' = confirmationCode
           /\ (ev'.op = "verifyOTPDone" /\ ~ev'.threw) =>
                 /\ ~showConfirmationModal'
                 /\ currentOrder' = NullOrder
                 /\ confirmationCode' = EmptyStr
                 /\ ev'.sent = FetchRequest(TRUE, TRUE)
                 /\ inflight'[Len(inflight')] = FetchRequest(TRUE, TRUE)
         ]_vars

\* C25 witness: a verification failed and the modal is still open for the
\* order, with the code that was sent.
C25_Witness ==
    /\ ev.op = "verifyOTPDone"
    /\ ev.threw
    /\ showConfirmationModal
    /\ currentOrder = ev.order
    /\ confirmationCode = d_4821

\* An update or verification is under way: its gateway call, or the
\* fetchOrders call it awaits, is pending.
UpdateUnderWay ==
    \E i \in DOMAIN inflight : IsMutation(inflight[i]) \/ inflight[i].chained

\* The marker is null whenever no update or verification is under way.
C24_IdleMarkerIsNull == ~UpdateUnderWay => updatingOrderId = NullId

ChainedCount == Cardinality({i \in DOMAIN inflight : inflight[i].chained})

\* The end of an update resets the marker: the failure of its gateway call,
\* or the answer to the fetchOrders call it awaited.
C24_ResetAtTheEnd ==
    [][ /\ (ev'.op \in DoneOps /\ ev'.threw) => updatingOrderId' = NullId
        /\ (ev'.op = "getOrdersDone" /\ ChainedCount' < ChainedCount) =>
              updatingOrderId' = NullId
      ]_vars

\* C24: updateOrderStatus and verifyOTP reset updatingOrderId to null when
\* they end, on success and on failure; when the gateway call returned the
\* marker still names the order while fetchOrders is awaited, so that the
\* order's buttons stay disabled; and the marker is null when no update or
\* verification is under way.
C24_MarkerHeldUntilRefetched ==
    /\ []C24_IdleMarkerIsNull
    /\ C24_ResetAtTheEnd
    /\ [][(ev'.op \in DoneOps /\ ~ev'.threw) => updatingOrderId' = ev'.order.id]_vars

\* C23: an older response never overwrites a newer one.  The answer to a
\* getOrders call that was overtaken (a getOrders call issued after it was
\* answered before it) leaves the displayed list as it is.
C23_NewestFetchWins ==
    [][ ev'.op = "getOrdersDone" =>
            \A i \in DOMAIN inflight :
                (/\ inflight[i].kind = "getOrders"
                 /\ inflight[i].overtaken
                 /\ inflight' = AnswerAt(inflight, i)) => orders' = orders
      ]_vars

\* ------------------------------------------------------------------------
\* AuthContext, NavigationManager
\* ------------------------------------------------------------------------

\* AuthContext.login(token, user): mirrors both into the store, logs in.
authLogin(a, token, user) == Auth(a.isLoading, TRUE, token, user)

\* AuthContext.logout(): clears the store, logs out.
authLogout(a) == Auth(a.isLoading, FALSE, "", NoProfile)

\* How a call of login() or logout() ends: it returns, it throws before it
\* changed anything, or (logout) it throws after it removed the token.
AuthOutcomes == {"ok", "throws", "throwsAfterToken"}

\* The stored session read when the provider mounts.
RestoreSession ==
    /\ auth.isLoading
    /\ auth' = Auth(FALSE, auth.token # "", auth.token, auth.user)
    /\ step' = Did("restoreSession", FALSE, FALSE, FALSE, TRUE, NoAlert, NoReply)
    /\ UNCHANGED <<login, profile, home, net>>
    /\ UNCHANGED <<screen, call>>

\* NavigationManager with the two branches of the conditional exchanged.
NavigationManager_swapped(isLoggedIn, isLoading) ==
    IF isLoading THEN {"Launcher"}
    ELSE IF isLoggedIn THEN {"Login"}
    ELSE {"Home", "Orders", "History", "Profile"}

\* NavigationManager: the screens of the root it renders.  FrontNavigation
\* holds the four tabs, AuthNavigation the login screen.
NavigationManager(isLoggedIn, isLoading) ==
    IF isLoading THEN {"Launcher"}
    ELSE IF isLoggedIn THEN {"Home", "Orders", "History", "Profile"}
    ELSE {"Login"}

\* The screens shown.
Shown == NavigationManager(auth.isLoggedIn, auth.isLoading)

\* ------------------------------------------------------------------------
\* LoginScreen
\* ------------------------------------------------------------------------

RECURSIVE trimStart(_)
trimStart(s) == IF s # <<>> /\ Head(s) = " " THEN trimStart(Tail(s)) ELSE s

RECURSIVE trimEnd(_)
trimEnd(s) ==
    IF s # <<>> /\ s[Len(s)] = " " THEN trimEnd(SubSeq(s, 1, Len(s) - 1)) ELSE s

\* String.prototype.trim, for the space character
trim(s) == trimEnd(trimStart(s))

u_ab == <<"a", "b">>
u_abc == <<"a", "b", "c">>
u_blank == <<" ", " ", " ">>
u_rider == <<"r", "i", "d", "e", "r", " ">>
p_secret == <<"s", "3", "c", "r", "e", "t">>

\* What the rider may type in the two fields.
Usernames == {EmptyStr, u_ab, u_abc, u_blank, u_rider}
Passwords == {EmptyStr, p_secret}

\* The body of a login response: the fields either revision of the screen
\* reads.  '' is an absent string, NoProfile an absent profile.
LoginBody(success, message, token, delivery_person, rider, dataToken, dataRider) ==
    [success |-> success, message |-> message, error |-> "", token |-> token,
     delivery_person |-> delivery_person, rider |-> rider,
     data |-> [token |-> dataToken, rider |-> dataRider]]

Asha == Profile(7, "Asha")

\* What the network may do to the login request.
LoginReplies ==
    { Reply(FALSE, FALSE, TRUE, TRUE, LoginBody(TRUE, "", "17|rider", Asha, Asha, "", NoProfile)),
      Reply(TRUE, TRUE, FALSE, FALSE, LoginBody(FALSE, "", "", NoProfile, NoProfile, "", NoProfile)),
      Reply(TRUE, FALSE, FALSE, TRUE, LoginBody(FALSE, "", "", NoProfile, NoProfile, "", NoProfile)),
      Reply(TRUE, FALSE, TRUE, FALSE, LoginBody(FALSE, "Invalid credentials", "", NoProfile, NoProfile, "", NoProfile)),
      Reply(TRUE, FALSE, TRUE, TRUE, LoginBody(FALSE, "", "17|rider", Asha, NoProfile, "", NoProfile)),
      Reply(TRUE, FALSE, TRUE, TRUE, LoginBody(TRUE, "", "17|rider", Asha, Asha, "", NoProfile)),
      Reply(TRUE, FALSE, TRUE, TRUE, LoginBody(FALSE, "", "17|rider", NoProfile, NoProfile, "", NoProfile)),
      Reply(TRUE, FALSE, TRUE, TRUE, LoginBody(FALSE, "", "", Asha, Asha, "", NoProfile)),
      Reply(TRUE, FALSE, TRUE, TRUE, LoginBody(FALSE, "Account disabled", "", NoProfile, NoProfile, "", NoProfile)),
      Reply(TRUE, FALSE, TRUE, TRUE, LoginBody(FALSE, "", "", NoProfile, NoProfile, "", NoProfile)),
      Reply(TRUE, FALSE, TRUE, TRUE, LoginBody(TRUE, "", "", NoProfile, NoProfile, "17|rider", Asha)),
      Reply(TRUE, FALSE, TRUE, TRUE, LoginBody(TRUE, "", "", NoProfile, Asha, "", NoProfile)) }

\* The validation without the length rule.
validate_noLengthRule(username, password) ==
    IF username = EmptyStr \/ password = EmptyStr
    THEN Alert("Validation Error", "Please enter both username and password")
    ELSE NoAlert

\* The validation of handleLogin: the alert it ends with, or NoAlert.
validate(username, password) ==
    IF username = EmptyStr \/ password = EmptyStr
    THEN Alert("Validation Error", "Please enter both username and password")
    ELSE IF Len(username) < 3
    THEN Alert("Validation Error", "Username must be at least 3 characters")
    ELSE NoAlert

\* onChangeText of the two fields, editable while not loading
TypeUsername ==
    /\ "Login" \in Shown /\ ~login.loading
    /\ \E u \in Usernames : login' = [login EXCEPT !.username = u]
    /\ step' = Did("setUsername", FALSE, FALSE, FALSE, TRUE, NoAlert, NoReply)
    /\ UNCHANGED <<auth, profile, home, net>>
    /\ UNCHANGED <<screen, call>>

TypePassword ==
    /\ "Login" \in Shown /\ ~login.loading
    /\ \E pw \in Passwords : login' = [login EXCEPT !.password = pw]
    /\ step' = Did("setPassword", FALSE, FALSE, FALSE, TRUE, NoAlert, NoReply)
    /\ UNCHANGED <<auth, profile, home, net>>
    /\ UNCHANGED <<screen, call>>

\* handleLogin up to its await: the validation, then the request.
handleLogin ==
    LET alert == validate(login.username, login.password)
    IN  /\ IF alert # NoAlert
           THEN UNCHANGED <<login, net>>
           ELSE /\ login' = [login EXCEPT !.loading = TRUE]
                /\ net' = Append(net, Req("riderLogin", trim(login.username),
                                          login.password, ""))
        /\ step' = Did("handleLogin", alert = NoAlert, FALSE, FALSE, TRUE, alert, NoReply)
        /\ UNCHANGED <<auth, profile, home>>
        /\ UNCHANGED <<screen, call>>

\* The login button, disabled while loading
TapLogin ==
    /\ "Login" \in Shown /\ ~login.loading
    /\ handleLogin

\* The message of the alert of the catch block.
loginErrorMessage(message) ==
    IF message = "No internet connection"
    THEN "No internet connection. Please check your network and try again."
    ELSE IF message # "" THEN message
    ELSE "Something went wrong. Please try again."

\* What the part of handleLogin after the await decides: whether login is
\* called and with what, the alert, and whether loading is reset.
LoginPlan(callLogin, token, user, alert) ==
    [callLogin |-> callLogin, token |-> token, user |-> user, alert |-> alert]

\* LoginScreen.tsx: login only for a token and a delivery_person.
loginPlan(result) ==
    IF result.threw
    THEN LoginPlan(FALSE, "", NoProfile, Alert("Error", loginErrorMessage(result.message)))
    ELSE IF result.json.token # "" /\ result.json.delivery_person # NoProfile
    THEN LoginPlan(TRUE, result.json.token, result.json.delivery_person,
                   Alert("Success", "Welcome"))
    ELSE LoginPlan(FALSE, "", NoProfile,
                   Alert("Login Failed",
                         IF result.json.message # "" THEN result.json.message
                         ELSE "Invalid credentials. Please check your username and password."))

\* The other revision of the screen: success or a token opens the branch,
\* the token is response.token || response.data.token, the profile is
\* response.rider || response.data.rider, which may be undefined.
loginPlan_part_000(result) ==
    IF result.threw
    THEN LoginPlan(FALSE, "", NoProfile, Alert("Error", loginErrorMessage(result.message)))
    ELSE IF result.json.success \/ result.json.token # ""
    THEN LET token == IF result.json.token # "" THEN result.json.token
                      ELSE result.json.data.token
             riderData == IF result.json.rider # NoProfile THEN result.json.rider
                          ELSE result.json.data.rider
         IN  IF token = ""
             THEN LoginPlan(FALSE, "", NoProfile,
                            Alert("Error", "Login failed: No authentication token received"))
             ELSE LoginPlan(TRUE, token, riderData, Alert("Success", "Welcome"))
    ELSE LoginPlan(FALSE, "", NoProfile,
                   Alert("Login Failed",
                         IF result.json.message # "" THEN result.json.message
                         ELSE "Invalid credentials. Please check your username and password."))

\* The plan carried out: login(token, profile) returns or throws into the
\* catch block; every branch but the successful one resets loading.
LoginEnd(op, plan, reply, outcome) ==
    /\ net' = Tail(net)
    /\ IF plan.callLogin /\ outcome = "ok"
       THEN /\ auth' = authLogin(auth, plan.token, plan.user)
            /\ profile' = ProfileState(FALSE, FALSE)
            /\ UNCHANGED login
            /\ step' = Did(op, FALSE, TRUE, FALSE, TRUE, plan.alert, reply)
       ELSE /\ login' = [login EXCEPT !.loading = FALSE]
            /\ UNCHANGED <<auth, profile>>
            /\ step' = Did(op, FALSE, plan.callLogin, FALSE, ~plan.callLogin,
                           IF plan.callLogin
                           THEN Alert("Error", "Something went wrong. Please try again.")
                           ELSE plan.alert,
                           reply)
    /\ UNCHANGED home
    /\ UNCHANGED <<screen, call>>

\* handleLogin from the answer of the gateway on (LoginScreen.tsx)
handleLoginDone ==
    /\ net # <<>> /\ Head(net).kind = "riderLogin"
    /\ \E reply \in LoginReplies, outcome \in {"ok", "throws"} :
           LoginEnd("handleLoginDone", loginPlan(request(reply)), reply, outcome)

\* handleLogin from the answer of the gateway on (the other revision)
handleLoginDone_part_000 ==
    /\ net # <<>> /\ Head(net).kind = "riderLogin"
    /\ \E reply \in LoginReplies, outcome \in {"ok", "throws"} :
           LoginEnd("handleLoginDone_part_000", loginPlan_part_000(request(reply)),
                    reply, outcome)

\* ------------------------------------------------------------------------
\* Profile screen: logout
\* ------------------------------------------------------------------------

\* What the network may do to the logout request.
LogoutReplies ==
    { Reply(FALSE, FALSE, TRUE, TRUE, Body(TRUE, "Logged out", "")),
      Reply(TRUE, TRUE, FALSE, FALSE, NoJson),
      Reply(TRUE, FALSE, TRUE, FALSE, Body(FALSE, "Unauthenticated.", "")),
      Reply(TRUE, FALSE, TRUE, TRUE, Body(TRUE, "Logged out", "")) }

\* handleLogout: the Logout button, disabled while loading, opens the dialog
handleLogout ==
    /\ "Profile" \in Shown /\ ~profile.loading /\ ~profile.confirming
    /\ profile' = [profile EXCEPT !.confirming = TRUE]
    /\ step' = Did("handleLogout", FALSE, FALSE, FALSE, TRUE, NoAlert, NoReply)
    /\ UNCHANGED <<auth, login, home, net>>
    /\ UNCHANGED <<screen, call>>

\* Cancel in the dialog
CancelLogout ==
    /\ profile.confirming
    /\ profile' = [profile EXCEPT !.confirming = FALSE]
    /\ step' = Did("cancelLogout", FALSE, FALSE, FALSE, TRUE, NoAlert, NoReply)
    /\ UNCHANGED <<auth, login, home, net>>
    /\ UNCHANGED <<screen, call>>

\* performLogout giving up when the server request threw.
callsLogout_unlessApiError(requested, result) == ~(requested /\ result.threw)

\* performLogout: logout() follows the inner try/catch whatever it caught.
callsLogout(requested, result) == TRUE

\* The end of performLogout: logout() if it is reached, the catch block if it
\* is not or if it throws.
LogoutEnd(op, requested, reply, outcome) ==
    LET called == callsLogout(requested, request(reply))
    IN  /\ IF called /\ outcome = "ok"
           THEN /\ auth' = authLogout(auth)
                /\ login' = LoginState(EmptyStr, EmptyStr, FALSE)
                /\ profile' = [profile EXCEPT !.confirming = FALSE, !.loading = TRUE]
                /\ step' = Did(op, requested, FALSE, TRUE, TRUE, NoAlert, reply)
           ELSE /\ auth' = IF called /\ outcome = "throwsAfterToken"
                           THEN [auth EXCEPT !.token = ""] ELSE auth
                /\ UNCHANGED login
                /\ profile' = [profile EXCEPT !.confirming = FALSE, !.loading = FALSE]
                /\ step' = Did(op, requested, FALSE, called, FALSE,
                               Alert("Error", "Failed to logout. Please try again."),
                               reply)
        /\ UNCHANGED home
        /\ UNCHANGED <<screen, call>>

\* performLogout up to its await of the gateway; with no token stored it
\* goes on to logout() at once
performLogout ==
    /\ profile.confirming
    /\ IF auth.token # ""
       THEN /\ profile' = [profile EXCEPT !.confirming = FALSE, !.loading = TRUE]
            /\ net' = Append(net, Req("riderLogout", EmptyStr, EmptyStr, auth.token))
            /\ step' = Did("performLogout", TRUE, FALSE, FALSE, TRUE, NoAlert, NoReply)
            /\ UNCHANGED <<auth, login, home>>
            /\ UNCHANGED <<screen, call>>
       ELSE /\ UNCHANGED net
            /\ \E outcome \in AuthOutcomes :
                   LogoutEnd("performLogout", FALSE, NoReply, outcome)

\* performLogout from the answer of the gateway on
performLogoutDone ==
    /\ net # <<>> /\ Head(net).kind = "riderLogout"
    /\ net' = Tail(net)
    /\ \E reply \in LogoutReplies, outcome \in AuthOutcomes :
           LogoutEnd("performLogoutDone", TRUE, reply, outcome)

\* A cold start: the store holds nothing, or the session of an earlier run.
InitSession ==
    /\ orders = <<>>
    /\ loading = TRUE
    /\ refreshing = FALSE
    /\ updatingOrderId = NullId
    /\ showConfirmationModal = FALSE
    /\ confirmationCode = EmptyStr
    /\ currentOrder = NullOrder
    /\ dialog = NoDialog
    /\ inflight = <<>>
    /\ ev = Tap("init", NullOrder, NoAlert, NoRequest)
    /\ call = NoCall
    /\ auth \in {Auth(TRUE, FALSE, "", NoProfile), Auth(TRUE, FALSE, "17|rider", Asha)}
    /\ login = LoginState(EmptyStr, EmptyStr, FALSE)
    /\ profile = ProfileState(FALSE, FALSE)
    /\ home = HomeState(<<>>, 0, 0, FALSE)
    /\ net = <<>>
    /\ step = Did("init", FALSE, FALSE, FALSE, FALSE, NoAlert, NoReply)

NextSession ==
    \/ RestoreSession
    \/ TypeUsername
    \/ TypePassword
    \/ TapLogin
    \/ handleLoginDone
    \/ handleLoginDone_part_000
    \/ handleLogout
    \/ CancelLogout
    \/ performLogout
    \/ performLogoutDone

SpecSession == InitSession /\ [][NextSession]_vars

\* ------------------------------------------------------------------------
\* Home screen
\* ------------------------------------------------------------------------

\* normalizeStatus: (status || '').toLowerCase()
normalizeStatus(status) == IF Truthy(status) THEN toLowerCase(status) ELSE EmptyStr

\* isPendingOrder comparing the status as the server wrote it.
isPendingOrder_caseSensitive(order) ==
    order.status # s_delivered /\ order.status # s_cancelled

isPendingOrder(order) ==
    LET status == normalizeStatus(order.status)
    IN  status # s_delivered /\ status # s_cancelled

isCompletedOrder(order) ==
    LET status == normalizeStatus(order.status)
    IN  status = s_delivered

\* orders.filter(isPendingOrder).length
calculatePendingCount(list) ==
    Cardinality({i \in DOMAIN list : isPendingOrder(list[i])})

\* orders.filter(isCompletedOrder).length
calculateCompletedCount(list) ==
    Cardinality({i \in DOMAIN list : isCompletedOrder(list[i])})

\* The statuses of the orders the home screen may be sent.
HomeStatuses == {s_assigned, s_delivered, in_DELIVERED, in_Cancelled, Null}

\* The lists of at most two orders with these statuses.
HomeLists ==
    {<<>>} \cup {<<Order(1, Null, a)>> : a \in HomeStatuses}
           \cup {<<Order(1, Null, a), Order(2, Null, b)>> : a, b \in HomeStatuses}

\* What the network may do to the request of the home screen.
HomeReplies ==
    { Reply(FALSE, FALSE, TRUE, TRUE, Body(TRUE, "", "")),
      Reply(TRUE, TRUE, FALSE, FALSE, NoJson),
      Reply(TRUE, FALSE, FALSE, TRUE, NoJson),
      Reply(TRUE, FALSE, TRUE, FALSE, Body(FALSE, "Unauthenticated.", "")),
      Reply(TRUE, FALSE, TRUE, TRUE, Body(TRUE, "", "")) }
    \cup { Reply(TRUE, FALSE, TRUE, TRUE,
                 [success |-> TRUE, message |-> "", error |-> "",
                  hasData |-> TRUE, data |-> list]) : list \in HomeLists }

\* useFocusEffect: fetchOrders up to its await of the gateway
HomeFocus ==
    /\ "Home" \in Shown
    /\ Len(net) < MaxInFlight
    /\ net' = Append(net, Req("getOrders", EmptyStr, EmptyStr, auth.token))
    /\ step' = Did("fetchOrders", TRUE, FALSE, FALSE, TRUE, NoAlert, NoReply)
    /\ UNCHANGED <<auth, login, profile, home>>
    /\ UNCHANGED <<screen, call>>

\* onRefresh: setRefreshing(true), then fetchOrders up to its await
HomeRefresh ==
    /\ "Home" \in Shown
    /\ ~home.refreshing
    /\ Len(net) < MaxInFlight
    /\ home' = [home EXCEPT !.refreshing = TRUE]
    /\ net' = Append(net, Req("getOrdersRefresh", EmptyStr, EmptyStr, auth.token))
    /\ step' = Did("onRefresh", TRUE, FALSE, FALSE, TRUE, NoAlert, NoReply)
    /\ UNCHANGED <<auth, login, profile>>
    /\ UNCHANGED <<screen, call>>

\* The three setters of fetchOrders, and setRefreshing(false) of onRefresh.
HomeApply(op, i, reply, applied, list) ==
    /\ net' = RemoveAt(net, i)
    /\ home' = HomeState(IF applied THEN list ELSE home.orders,
                         IF applied THEN calculatePendingCount(list)
                         ELSE home.pendingCount,
                         IF applied THEN calculateCompletedCount(list)
                         ELSE home.completedCount,
                         IF net[i].kind = "getOrdersRefresh" THEN FALSE
                         ELSE home.refreshing)
    /\ step' = Did(op, FALSE, FALSE, FALSE, applied, NoAlert, reply)
    /\ UNCHANGED <<auth, login, profile>>
    /\ UNCHANGED <<screen, call>>

\* fetchOrders from the answer on (RiderHomeScreen.tsx): a body whose data is
\* an array is applied, every other answer is dropped
fetchOrdersHomeDone ==
    \E i \in DOMAIN net, reply \in HomeReplies :
        /\ net[i].kind \in {"getOrders", "getOrdersRefresh"}
        /\ LET result == request(reply)
           IN  HomeApply("fetchOrdersDone", i, reply,
                         ~result.threw /\ result.json.hasData, result.json.data)

\* fetchOrders from the answer on (the revision with the helper functions):
\* a body without data is applied as the empty list
fetchOrdersHomeDone_helpers ==
    \E i \in DOMAIN net, reply \in HomeReplies :
        /\ net[i].kind \in {"getOrders", "getOrdersRefresh"}
        /\ LET result == request(reply)
           IN  HomeApply("fetchOrdersDone_helpers", i, reply, ~result.threw,
                         IF result.json.hasData THEN result.json.data ELSE <<>>)

\* The tab navigation is up: a session is stored and restored.
InitHome ==
    /\ orders = <<>>
    /\ loading = TRUE
    /\ refreshing = FALSE
    /\ updatingOrderId = NullId
    /\ showConfirmationModal = FALSE
    /\ confirmationCode = EmptyStr
    /\ currentOrder = NullOrder
    /\ dialog = NoDialog
    /\ inflight = <<>>
    /\ ev = Tap("init", NullOrder, NoAlert, NoRequest)
    /\ call = NoCall
    /\ auth = Auth(FALSE, TRUE, "17|rider", Asha)
    /\ login = LoginState(EmptyStr, EmptyStr, FALSE)
    /\ profile = ProfileState(FALSE, FALSE)
    /\ home = HomeState(<<>>, 0, 0, FALSE)
    /\ net = <<>>
    /\ step = Did("init", FALSE, FALSE, FALSE, FALSE, NoAlert, NoReply)

NextHome ==
    \/ HomeFocus
    \/ HomeRefresh
    \/ fetchOrdersHomeDone
    \/ fetchOrdersHomeDone_helpers

SpecHome == InitHome /\ [][NextHome]_vars

\* ------------------------------------------------------------------------
\* Properties of the gateway's headers and errors
\* ------------------------------------------------------------------------

\* The server answered and request threw for it: the body did not parse or
\* the HTTP status was not 2xx.
ServerFailure(reply) ==
    reply.isConnected /\ ~reply.rejects /\ (~reply.parses \/ ~reply.ok)

HasTokenAndProfile(json) ==
    /\ json.token # "" \/ json.data.token # ""
    /\ \/ json.delivery_person # NoProfile
       \/ json.rider # NoProfile
       \/ json.data.rider # NoProfile

LoginDoneOps == {"handleLoginDone", "handleLoginDone_part_000"}

\* C26: handleLogin calls login(token, profile) only when the gateway
\* returned a response that holds both a token and a profile; in every other
\* outcome login is not called, an alert is shown and loading is false.
C26_LoginOnlyWithTokenAndProfile ==
    [][ step'.op \in LoginDoneOps =>
            /\ step'.loginCalled =>
                   /\ ~request(step'.reply).threw
                   /\ HasTokenAndProfile(step'.reply.json)
            /\ ~step'.loginCalled =>
                   /\ step'.alert # NoAlert
                   /\ ~login'.loading
      ]_vars

\* The username or the password is empty, or the username is shorter than
\* constant.validation.minUsernameLength.
InvalidCredentials ==
    login.username = EmptyStr \/ login.password = EmptyStr \/ Len(login.username) < 3

LoginsInFlight == Cardinality({i \in DOMAIN net : net[i].kind = "riderLogin"})

\* C27: handleLogin with an empty username or password, or a username of
\* fewer than 3 characters, sends nothing and leaves loading false; while a
\* login request is in flight loading is true, which disables the button,
\* and no second login request is in flight.
C27_NoRequestForInvalidInput ==
    /\ [](LoginsInFlight <= 1 /\ (LoginsInFlight = 1 => login.loading))
    /\ [][ (step'.op = "handleLogin" /\ InvalidCredentials) =>
               /\ net' = net
               /\ ~step'.requested
               /\ ~login'.loading
         ]_vars

\* C27 witness: the button was pressed with a username of two characters and
\* a password; nothing was sent.
C27_Witness ==
    /\ step.op = "handleLogin"
    /\ login.username = u_ab /\ login.password = p_secret
    /\ step.alert.message = "Username must be at least 3 characters"
    /\ net = <<>> /\ ~login.loading

LogoutOps == {"performLogout", "performLogoutDone"}

C28_SkippedWitness ==
    /\ step.op = "performLogout"
    /\ ~step.requested /\ step.logoutCalled /\ step.ok
    /\ ~auth.isLoggedIn

Tabs == {"Home", "Orders", "History", "Profile"}

\* C29: the launcher alone is shown while isLoading; otherwise the four tabs
\* alone if isLoggedIn, and the login screen alone if not; no tab is shown
\* while logged out or loading.
C29_ExactlyOneRoot ==
    /\ auth.isLoading => Shown = {"Launcher"}
    /\ (~auth.isLoading /\ auth.isLoggedIn) => Shown = Tabs
    /\ (~auth.isLoading /\ ~auth.isLoggedIn) => Shown = {"Login"}
    /\ (auth.isLoading \/ ~auth.isLoggedIn) => Shown \cap Tabs = {}

\* C29 witness: a login went through and the tabs are shown.
C29_Witness ==
    /\ step.op = "handleLoginDone"
    /\ step.loginCalled /\ step.ok
    /\ auth.isLoggedIn /\ ~auth.isLoading
    /\ "Orders" \in Shown /\ "Login" \notin Shown

\* ------------------------------------------------------------------------
\* Properties of the home screen
\* ------------------------------------------------------------------------

HomeDoneOps == {"fetchOrdersDone", "fetchOrdersDone_helpers"}

\* The orders of the list whose lower-cased status is w.
WithStatus(list, w) ==
    {i \in DOMAIN list :
        Truthy(list[i].status) /\ toLowerCase(list[i].status) = w}

\* C30: after an applied fetch, pendingCount counts the displayed orders
\* whose lower-cased status is neither 'delivered' nor 'cancelled' and
\* completedCount those whose lower-cased status is 'delivered'; their sum is
\* at most orders.length, and equal to it exactly when no order is
\* cancelled; a fetch that failed leaves orders and both counts as they were.
C30_CountsFollowTheList ==
    [][ step'.op \in HomeDoneOps =>
            /\ step'.ok =>
                  /\ home'.completedCount
                         = Cardinality(WithStatus(home'.orders, s_delivered))
                  /\ home'.pendingCount
                         = Len(home'.orders)
                           - Cardinality(WithStatus(home'.orders, s_delivered))
                           - Cardinality(WithStatus(home'.orders, s_cancelled))
                  /\ home'.pendingCount + home'.completedCount <= Len(home'.orders)
                  /\ (home'.pendingCount + home'.completedCount = Len(home'.orders))
                         <=> (WithStatus(home'.orders, s_cancelled) = {})
            /\ request(step'.reply).threw =>
                  /\ ~step'.ok
                  /\ home'.orders = home.orders
                  /\ home'.pendingCount = home.pendingCount
                  /\ home'.completedCount = home.completedCount
      ]_vars

\* C30 witness: a list with a delivered order written in capitals and a
\* cancelled one was applied: one completed, none pending, two shown.
C30_Witness ==
    /\ step.op \in HomeDoneOps /\ step.ok
    /\ home.orders = <<Order(1, Null, in_DELIVERED), Order(2, Null, in_Cancelled)>>
    /\ home.completedCount = 1 /\ home.pendingCount = 0

\* A failed fetch came after an applied one and the list is still shown.
C30_FailedWitness ==
    /\ step.op \in HomeDoneOps /\ ~step.ok
    /\ request(step.reply).threw
    /\ home.orders # <<>>

====
